---- MODULE Spec2Model ----
(***************************************************************************)
(* Message-flow and link-lifecycle engine of the Service Bus AMQP client:  *)
(* the credit manager, the inbound brokered message, the streaming         *)
(* receiver and the management request client.                             *)
(*                                                                         *)
(* Four specifications share the variables:                                *)
(*   Spec     the streaming receiver (Receiver._connectReceiver) with its  *)
(*            credit manager, its link and the messages delivered on it;   *)
(*   SpecLive Spec with the fairness of the event loop;                    *)
(*   SpecCM   one CreditManager driven directly through its public API;    *)
(*   SpecRC   one AmqpRequestClient with its pending requests.             *)
(***************************************************************************)
EXTENDS Integers, Sequences, FiniteSets, TLC

\* ------------------------------------------------------------------ bounds
MaxMsgs == 2          \* messages the broker holds for the receiver
MaxConcurrent == 2    \* largest maxConcurrentCalls tried
MaxAttempts == 2      \* calls of _connectReceiver (first setup and reattaches)
MaxTokens == 2        \* lock tokens handed to the CreditManager in SpecCM
MaxCredit == 2        \* largest link credit / threshold tried in SpecCM
MaxReqs == 2          \* management requests in SpecRC
MaxListeners == 2     \* 'message' listeners installed on the response receiver
MaxLeases == 2        \* calls of ClientManager.getAMQPClient in SpecPool
HandleMax == 2        \* per-connection link budget tried (constants.handleMax)

Msgs == 1..MaxMsgs
Tokens == 1..MaxTokens
Reqs == 1..MaxReqs
Lessees == 1..MaxLeases
\* A lessee asks for 1 link up to one more than a connection can carry.
LinkCounts == 1..(HandleMax + 1)

ReceiveModes == {"PeekLock", "ReceiveAndDelete"}
\* The settlements the user handler is let to call: complete and deadLetter
\* (abandon runs the same code with link.modify, and is what the receiver calls).
UserDispositions == {"accept", "reject"}

VARIABLES
    config,      \* OnMessageOptions: receiveMode, autoComplete, maxConcurrentCalls
    phase,       \* position of _connectReceiver's async setup
    isListening, \* MessageListenerImpl._isListening
    attempts,    \* calls of _connectReceiver so far
    emitted,     \* events emitted on the MessageListener and cleanupCallback runs,
                 \* counted since the last call of _connectReceiver
    link,        \* the ReceiverLink: state, linkCredit, credits added after attach
    cm,          \* the CreditManager
    msgs,        \* the InternalBrokeredMessage of each delivery, with its history
    cmHist,      \* the tokens passed to the CreditManager's API so far (SpecCM)
    rc,          \* the AmqpRequestClient and its two links
    reqs,        \* each management request: map entries, timer, promises
    clientsArr,  \* ClientManager._clients: the pooled client states, in order
    clientStates,\* every AMQPClientState created so far, by creation number
    leases,      \* each lessee's { dispose, client } closure
    now,         \* Date.now(), in RenewTick units (SpecRenew)
    rn,          \* one delivered message and its lock-renewal schedule (SpecRenew)
    sender,      \* a Sender: _disposed, __sender and its link (SpecSend)
    sends,       \* each call of Sender.send: its promise, timer and link send
    batch,       \* one call of Receiver.receiveBatch (SpecBatch)
    wire,        \* a lock token and its bytes as renewLock reorders them (SpecWire)
    messageListener, \* the MessageListenerImpl returned by onMessage (SpecSetup)
    setups,      \* each call of _connectReceiver: its promises, leases and teardown
    linksCount   \* the links leased from the ClientManager by the setups

vars == <<config, phase, isListening, attempts, emitted, link, cm, msgs, cmHist, rc, reqs,
          clientsArr, clientStates, leases, now, rn, sender, sends, batch, wire,
          messageListener, setups, linksCount>>
setupVars == <<messageListener, setups, linksCount>>
lateVars == <<wire, setupVars>>
sendVars == <<sender, sends>>
poolVars == <<clientsArr, clientStates, leases>>
renewVars == <<now, rn>>
rcvVars == <<config, phase, isListening, attempts, emitted, msgs>>

\* ------------------------------------------------------- credit manager
\* Math.ceil(maxConcurrentCalls / 2)
Threshold(n) == (n + 1) \div 2

\* CreditManager.create(mode, initialCredit, threshold, ...): no credits, no
\* pending settles, no link yet.
NewCreditManager(mode, initialCredit, threshold) ==
    [mode |-> mode, initialCredit |-> initialCredit, threshold |-> threshold,
     additionalCredits |-> 0, pendingSettles |-> {}, linkSet |-> FALSE]

NoLink == [state |-> "none", linkCredit |-> 0, added |-> 0]

\* The credit policy the link is created with: in PeekLock the callback adds
\* creditQuantum = initialCredit when called with {initial: true}; in
\* ReceiveAndDelete the base policy is passed through and the transport's own
\* refresh keeps the link supplied (linkCredit is then not tracked here).
PolicyInitialCredit(c) ==
    IF c.mode = "PeekLock" THEN c.initialCredit ELSE 0

\* Receiver.basePolicy and the policy getter of the CreditManager, as the
\* fields of receiverLink that differ; << >> stands for a field left to the
\* transport's default.
BasePolicy ==
    [credit |-> "default", creditQuantum |-> << >>, rcvSettleMode |-> "autoSettle"]

Policy(c) ==
    IF c.mode = "PeekLock"
    THEN [credit |-> "initialOnly", creditQuantum |-> <<c.initialCredit>>,
          rcvSettleMode |-> "settleOnDisposition"]
    ELSE BasePolicy

RefreshCreditsNoReset(c, l) ==
    IF ~c.linkSet \/ l.state # "attached"
    THEN [cm |-> c, link |-> l]
    ELSE IF c.additionalCredits > 0 /\ l.linkCredit < c.threshold
         THEN [cm |-> c,
               link |-> [l EXCEPT !.linkCredit = @ + c.additionalCredits,
                                  !.added = @ + c.additionalCredits]]
         ELSE [cm |-> c, link |-> l]

RefreshCreditsIgnoresThreshold(c, l) ==
    IF ~c.linkSet \/ l.state # "attached"
    THEN [cm |-> c, link |-> l]
    ELSE IF c.additionalCredits > 0
         THEN [cm |-> [c EXCEPT !.additionalCredits = 0],
               link |-> [l EXCEPT !.linkCredit = @ + c.additionalCredits,
                                  !.added = @ + c.additionalCredits]]
         ELSE [cm |-> c, link |-> l]

\* CreditManager.refreshCredits. Without a link it throws Link.NotFound, on a
\* link that is not attached it returns; in both cases nothing changes.
RefreshCredits(c, l) ==
    IF ~c.linkSet \/ l.state # "attached"
    THEN [cm |-> c, link |-> l]
    ELSE IF c.additionalCredits > 0 /\ l.linkCredit < c.threshold
         THEN [cm |-> [c EXCEPT !.additionalCredits = 0],
               link |-> [l EXCEPT !.linkCredit = @ + c.additionalCredits,
                                  !.added = @ + c.additionalCredits]]
         ELSE [cm |-> c, link |-> l]

\* CreditManager.scheduleMessageSettle(lockToken)
ScheduleMessageSettle(c, l, tok) ==
    IF tok \in c.pendingSettles
    THEN [cm |-> c, link |-> l, credited |-> 0]
    ELSE LET c1 == [c EXCEPT !.additionalCredits = @ + 1,
                             !.pendingSettles = @ \cup {tok}]
             r == RefreshCredits(c1, l)
         IN  [cm |-> r.cm, link |-> r.link, credited |-> 1]

SettleMessageAlwaysCredits(c, l, tok) ==
    LET c1 == [c EXCEPT !.additionalCredits = @ + 1,
                        !.pendingSettles = @ \ {tok}]
        r == RefreshCredits(c1, l)
    IN  [cm |-> r.cm, link |-> r.link, credited |-> 1]

\* CreditManager.settleMessage(lockToken): Set.delete returns whether the
\* token was pending; only a token that was not pending adds a credit.
SettleMessage(c, l, tok) ==
    IF tok \in c.pendingSettles
    THEN [cm |-> [c EXCEPT !.pendingSettles = @ \ {tok}], link |-> l, credited |-> 0]
    ELSE LET c1 == [c EXCEPT !.additionalCredits = @ + 1]
             r == RefreshCredits(c1, l)
         IN  [cm |-> r.cm, link |-> r.link, credited |-> 1]

NewMessageAlwaysActive(settled) ==
    [state |-> "Active",
     handler |-> "running",
     timer |-> "none",
     dispo |-> << >>,
     settleCalls |-> 0,
     credits |-> 0,
     userCalls |-> 0,
     rcvAbandon |-> 0,
     rcvComplete |-> 0,
     doneState |-> "none",
     doneLink |-> "none",
     settleErrors |-> 0,
     receiverErrors |-> 0]

\* ------------------------------------------------- inbound brokered message
\* new InternalBrokeredMessage(..., settled): Settled iff settled, else Active.
\* The fields after timer are the history of what was done with the message.
NewMessage(settled) ==
    [state |-> IF settled THEN "Settled" ELSE "Active",
     handler |-> "running",     \* the user handler: running, ok, failed
     timer |-> "none",          \* disposition of the armed delayed-settle timer
     dispo |-> << >>,           \* dispositions issued on the link, in order
     settleCalls |-> 0,         \* creditManager.settleMessage(lockToken) calls
     credits |-> 0,             \* credits the credit manager counted for it
     userCalls |-> 0,           \* settlement calls of the user that were accepted
     rcvAbandon |-> 0,          \* abandon() calls made by the receiver
     rcvComplete |-> 0,         \* complete() calls made by the receiver
     doneState |-> "none",      \* processingState when the handler's result resolved
     doneLink |-> "none",       \* state of the link at that moment
     settleErrors |-> 0,        \* settleError events emitted on the message
     receiverErrors |-> 0]      \* receiverError events emitted for the message

Undelivered ==
    [NewMessage(FALSE) EXCEPT !.state = "None", !.handler = "none"]

IsSettled(m) == m.state = "Settled"

SettleWrapNoCredit(m, c, l, kind, tok) ==
    IF l.state # "attached"
    THEN [msg |-> [m EXCEPT !.state = "SettleFailed", !.timer = "none",
                            !.settleErrors = @ + 1, !.receiverErrors = @ + 1],
          cm |-> c, link |-> l, threw |-> FALSE]
    ELSE [msg |-> [m EXCEPT !.state = "Settled", !.timer = "none",
                            !.dispo = Append(@, kind)],
          cm |-> c, link |-> l, threw |-> FALSE]

SettleWrapThrows(m, c, l, kind, tok) ==
    IF l.state # "attached"
    THEN [msg |-> m, cm |-> c, link |-> l, threw |-> TRUE]
    ELSE LET r == SettleMessage(c, l, tok)
         IN  [msg |-> [m EXCEPT !.state = "Settled", !.timer = "none",
                                !.dispo = Append(@, kind),
                                !.settleCalls = @ + 1, !.credits = @ + r.credited],
              cm |-> r.cm, link |-> r.link, threw |-> FALSE]

SettleWrapIssuesDetached(m, c, l, kind, tok) ==
    LET r == SettleMessage(c, l, tok)
    IN  [msg |-> [m EXCEPT !.state = "Settled", !.timer = "none",
                           !.dispo = Append(@, kind),
                           !.settleCalls = @ + 1, !.credits = @ + r.credited],
         cm |-> r.cm, link |-> r.link, threw |-> FALSE]

\* settleWrap of _scheduleSettle: on a link that is not attached the message
\* becomes SettleFailed and emits settleError (forwarded by the receiver as
\* receiverError); otherwise the disposition is issued and the message is
\* Settled. In both cases creditManager.settleMessage runs (finally).
SettleWrap(m, c, l, kind, tok) ==
    LET r == SettleMessage(c, l, tok)
        m1 == IF l.state # "attached"
              THEN [m EXCEPT !.state = "SettleFailed", !.timer = "none",
                             !.settleErrors = @ + 1, !.receiverErrors = @ + 1]
              ELSE [m EXCEPT !.state = "Settled", !.timer = "none",
                             !.dispo = Append(@, kind)]
    IN  [msg |-> [m1 EXCEPT !.settleCalls = @ + 1, !.credits = @ + r.credited],
         cm |-> r.cm, link |-> r.link, threw |-> FALSE]

ScheduleSettleStaysActive(m, c, l, kind, delayed, tok) ==
    IF m.state # "Active"
    THEN [msg |-> m, cm |-> c, link |-> l, threw |-> TRUE]
    ELSE IF delayed
         THEN LET r == ScheduleMessageSettle(c, l, tok)
              IN  [msg |-> [m EXCEPT !.timer = kind, !.credits = @ + r.credited],
                   cm |-> r.cm, link |-> r.link, threw |-> FALSE]
         ELSE SettleWrap(m, c, l, kind, tok)

ScheduleSettleNoGuard(m, c, l, kind, delayed, tok) ==
    IF delayed
    THEN LET r == ScheduleMessageSettle(c, l, tok)
         IN  [msg |-> [m EXCEPT !.state = "Settling", !.timer = kind,
                                !.credits = @ + r.credited],
              cm |-> r.cm, link |-> r.link, threw |-> FALSE]
    ELSE SettleWrap(m, c, l, kind, tok)

ScheduleSettleNoSchedule(m, c, l, kind, delayed, tok) ==
    IF m.state # "Active"
    THEN [msg |-> m, cm |-> c, link |-> l, threw |-> TRUE]
    ELSE IF delayed
         THEN [msg |-> [m EXCEPT !.state = "Settling", !.timer = kind],
               cm |-> c, link |-> l, threw |-> FALSE]
         ELSE SettleWrap(m, c, l, kind, tok)

\* InternalBrokeredMessage._scheduleSettle(settle, delayMs): throws
\* Message.SettleFailure unless the message is Active; with delayMs > 0 the
\* message becomes Settling, its credit is counted and a timer is armed;
\* otherwise settleWrap runs at once.
ScheduleSettle(m, c, l, kind, delayed, tok) ==
    IF m.state # "Active"
    THEN [msg |-> m, cm |-> c, link |-> l, threw |-> TRUE]
    ELSE IF delayed
         THEN LET r == ScheduleMessageSettle(c, l, tok)
              IN  [msg |-> [m EXCEPT !.state = "Settling", !.timer = kind,
                                     !.credits = @ + r.credited],
                   cm |-> r.cm, link |-> r.link, threw |-> FALSE]
         ELSE SettleWrap(m, c, l, kind, tok)

\* ------------------------------------------------------ streaming receiver
AfterHandlerCompletesAlways(m, c, l, succeeded, autoComplete, tok) ==
    LET m0 == [m EXCEPT !.handler = IF succeeded THEN "ok" ELSE "failed",
                        !.doneState = m.state, !.doneLink = l.state]
    IN  IF ~IsSettled(m0) /\ autoComplete
        THEN LET r == ScheduleSettle([m0 EXCEPT !.rcvComplete = @ + 1],
                                     c, l, "accept", FALSE, tok)
             IN  [msg |-> IF r.threw THEN [r.msg EXCEPT !.receiverErrors = @ + 1]
                          ELSE r.msg,
                  cm |-> r.cm, link |-> r.link]
        ELSE [msg |-> m0, cm |-> c, link |-> l]

AfterHandlerAutoCompleteOnly(m, c, l, succeeded, autoComplete, tok) ==
    LET m0 == [m EXCEPT !.handler = IF succeeded THEN "ok" ELSE "failed",
                        !.doneState = m.state, !.doneLink = l.state]
    IN  IF ~IsSettled(m0) /\ autoComplete /\ succeeded
        THEN LET r == ScheduleSettle([m0 EXCEPT !.rcvComplete = @ + 1],
                                     c, l, "accept", FALSE, tok)
             IN  [msg |-> IF r.threw THEN [r.msg EXCEPT !.receiverErrors = @ + 1]
                          ELSE r.msg,
                  cm |-> r.cm, link |-> r.link]
        ELSE IF ~succeeded /\ ~autoComplete
        THEN LET r == ScheduleSettle([m0 EXCEPT !.rcvAbandon = @ + 1],
                                     c, l, "modify", FALSE, tok)
             IN  [msg |-> IF r.threw THEN [r.msg EXCEPT !.receiverErrors = @ + 1]
                          ELSE r.msg,
                  cm |-> r.cm, link |-> r.link]
        ELSE [msg |-> m0, cm |-> c, link |-> l]

\* The 'message' handler of _connectReceiver after the await of the user
\* handler's result: a failed handler makes the receiver call abandon(); a
\* successful one, with autoComplete and the message not Settled, complete().
\* A call that throws lands in the catch and emits receiverError.
AfterHandler(m, c, l, succeeded, autoComplete, tok) ==
    LET m0 == [m EXCEPT !.handler = IF succeeded THEN "ok" ELSE "failed",
                        !.doneState = m.state, !.doneLink = l.state]
    IN  IF ~succeeded
        THEN LET r == ScheduleSettle([m0 EXCEPT !.rcvAbandon = @ + 1],
                                     c, l, "modify", FALSE, tok)
             IN  [msg |-> IF r.threw THEN [r.msg EXCEPT !.receiverErrors = @ + 1]
                          ELSE r.msg,
                  cm |-> r.cm, link |-> r.link]
        ELSE IF ~IsSettled(m0) /\ autoComplete
        THEN LET r == ScheduleSettle([m0 EXCEPT !.rcvComplete = @ + 1],
                                     c, l, "accept", FALSE, tok)
             IN  [msg |-> IF r.threw THEN [r.msg EXCEPT !.receiverErrors = @ + 1]
                          ELSE r.msg,
                  cm |-> r.cm, link |-> r.link]
        ELSE [msg |-> m0, cm |-> c, link |-> l]

\* The next delivery of the broker: deliveries carry fresh delivery tags, so
\* message i is the i-th delivery and its lock token is i.
NextMsg == CHOOSE m \in Msgs : msgs[m].state = "None" /\
                               \A k \in Msgs : msgs[k].state = "None" => m <= k
MoreToDeliver == \E m \in Msgs : msgs[m].state = "None"

\* The broker delivers only against link credit; in ReceiveAndDelete the
\* transport's own policy keeps the link in credit.
HasCredit == config.receiveMode = "PeekLock" => link.linkCredit > 0
TakeCredit(l) ==
    IF config.receiveMode = "PeekLock" THEN [l EXCEPT !.linkCredit = @ - 1] ELSE l

NoEvents == [attached |-> 0, detached |-> 0, linkError |-> 0, cleanups |-> 0]

\* receiverPromise resolves: the link was created with the credit manager's
\* policy, whose credit callback is run with {initial: true}; the listener
\* emits its first 'attached'.
ReceiverLinkCreated ==
    /\ phase = "connecting"
    /\ phase' = "linkCreated"
    /\ link' = [state |-> "attached", linkCredit |-> PolicyInitialCredit(cm), added |-> 0]
    /\ emitted' = [emitted EXCEPT !.attached = @ + 1]
    /\ UNCHANGED <<config, isListening, attempts, cm, msgs, cmHist, rc, reqs, poolVars, renewVars, sendVars, batch, lateVars>>

\* requestClientPromise resolves: creditManager.setReceiver(receiver) and the
\* 'message', 'attached' and 'detached' handlers are installed.
RequestClientReady ==
    /\ phase = "linkCreated"
    /\ phase' = "listening"
    /\ cm' = [cm EXCEPT !.linkSet = TRUE]
    /\ UNCHANGED <<config, isListening, attempts, emitted, link, msgs, cmHist, rc, reqs, poolVars, renewVars, sendVars, batch, lateVars>>

OnInitFailureSilent(em, listening) ==
    [phase |-> "backoff",
     emitted |-> [em EXCEPT !.cleanups = IF listening THEN @ + 1 ELSE @],
     isListening |-> FALSE]

\* The catch of the setup's async function: onLinkError emits
\* receiverError(Link.Detach), disposeInternals runs the cleanup callback if
\* the listener is listening, and the reattach timer is armed
\* (constants.reattachInterval).
OnInitFailure(em, listening) ==
    [phase |-> "backoff",
     emitted |-> [em EXCEPT !.linkError = @ + 1,
                            !.cleanups = IF listening THEN @ + 1 ELSE @],
     isListening |-> FALSE]

\* A step of the setup rejects (session, receiver link or management client).
InitFail ==
    /\ phase \in {"connecting", "linkCreated"}
    /\ attempts < MaxAttempts
    /\ LET r == OnInitFailure(emitted, isListening)
       IN  /\ phase' = r.phase
           /\ emitted' = r.emitted
           /\ isListening' = r.isListening
    /\ link' = IF isListening THEN NoLink ELSE link
    /\ UNCHANGED <<config, attempts, cm, msgs, cmHist, rc, reqs, poolVars, renewVars, sendVars, batch, lateVars>>

\* The reattach timer fires: _connectReceiver runs again, with a new credit
\* manager and messageListener.initialize.
ReattachTimer ==
    /\ phase = "backoff"
    /\ phase' = "connecting"
    /\ attempts' = attempts + 1
    /\ isListening' = TRUE
    /\ cm' = NewCreditManager(config.receiveMode, config.maxConcurrentCalls,
                              Threshold(config.maxConcurrentCalls))
    /\ link' = NoLink
    /\ emitted' = NoEvents
    /\ UNCHANGED <<config, msgs, cmHist, rc, reqs, poolVars, renewVars, sendVars, batch, lateVars>>

\* The link's 'message' event up to the call of the user handler:
\* refreshCredits, the InternalBrokeredMessage, the settleError forwarder.
Deliver ==
    /\ phase = "listening"
    /\ link.state = "attached"
    /\ MoreToDeliver
    /\ HasCredit
    /\ LET r == RefreshCredits(cm, TakeCredit(link))
       IN  /\ cm' = r.cm
           /\ link' = r.link
           /\ msgs' = [msgs EXCEPT ![NextMsg] =
                           NewMessage(config.receiveMode # "PeekLock")]
    /\ UNCHANGED <<config, phase, isListening, attempts, emitted, cmHist, rc, reqs, poolVars, renewVars, sendVars, batch, lateVars>>

\* The user calls complete or deadLetter on a message it was handed, with or
\* without a delay. On a message that is not Active the call throws
\* Message.SettleFailure to the user and changes nothing: it is no step.
UserSettle(m, kind, delayed) ==
    /\ msgs[m].handler # "none"
    /\ msgs[m].state = "Active"
    /\ LET r == ScheduleSettle(msgs[m], cm, link, kind, delayed, m)
       IN  /\ msgs' = [msgs EXCEPT ![m] =
                           IF r.threw THEN r.msg
                           ELSE [r.msg EXCEPT !.userCalls = @ + 1]]
           /\ cm' = r.cm
           /\ link' = r.link
    /\ UNCHANGED <<config, phase, isListening, attempts, emitted, cmHist, rc, reqs, poolVars, renewVars, sendVars, batch, lateVars>>

\* The timer of a delayed settlement fires: settleWrap.
SettleTimer(m) ==
    /\ msgs[m].timer # "none"
    /\ LET r == SettleWrap(msgs[m], cm, link, msgs[m].timer, m)
       IN  /\ msgs' = [msgs EXCEPT ![m] = r.msg]
           /\ cm' = r.cm
           /\ link' = r.link
    /\ UNCHANGED <<config, phase, isListening, attempts, emitted, cmHist, rc, reqs, poolVars, renewVars, sendVars, batch, lateVars>>

\* The user handler returns or throws, or its promise resolves or rejects.
HandlerDone(m, succeeded) ==
    /\ msgs[m].handler = "running"
    /\ LET r == AfterHandler(msgs[m], cm, link, succeeded, config.autoComplete, m)
       IN  /\ msgs' = [msgs EXCEPT ![m] = r.msg]
           /\ cm' = r.cm
           /\ link' = r.link
    /\ UNCHANGED <<config, phase, isListening, attempts, emitted, cmHist, rc, reqs, poolVars, renewVars, sendVars, batch, lateVars>>

OnDetachedReattach(ph, em) ==
    [phase |-> "backoff",
     emitted |-> [em EXCEPT !.detached = @ + 1, !.linkError = @ + 1, !.cleanups = @ + 1],
     isListening |-> FALSE]

\* The 'detached' handler of the receiver link: emits 'detached' and, through
\* onLinkError, receiverError(Link.Detach). Before the handlers are installed
\* the event is not heard.
OnDetached(ph, em) ==
    IF ph = "listening"
    THEN [phase |-> ph,
          emitted |-> [em EXCEPT !.detached = @ + 1, !.linkError = @ + 1],
          isListening |-> isListening]
    ELSE [phase |-> ph, emitted |-> em, isListening |-> isListening]

\* The receiver link detaches.
LinkDetached ==
    /\ phase \in {"linkCreated", "listening"}
    /\ link.state = "attached"
    /\ link' = [link EXCEPT !.state = "detached"]
    /\ LET r == OnDetached(phase, emitted)
       IN  /\ phase' = r.phase
           /\ emitted' = r.emitted
           /\ isListening' = r.isListening
    /\ UNCHANGED <<config, attempts, cm, msgs, cmHist, rc, reqs, poolVars, renewVars, sendVars, batch, lateVars>>

NoCmHist == [scheduled |-> {}, settled |-> {}, late |-> {}]

\* ------------------------------------------------------- request client
\* The AmqpRequestClient after its constructor: one 'message' listener on the
\* response receiver, _isListening true, the response receiver attached, the
\* maps empty. The request sender only has its state asked by _sendRequest
\* (canSend), which is an input of that step.
NewRequestClient ==
    [receiver |-> "attached", isListening |-> TRUE, listeners |-> 1,
     disposed |-> FALSE]

\* A request not made yet. inPending, inTimeouts and inTerminations are the
\* entries under its messageId in _pendingRequests, _requestTimeouts and
\* _requestTerminations; timerArmed is the setTimeout behind the timeout
\* entry; result is the inner promise and outer the promise returned to the
\* caller; fired counts the runs of the three callbacks.
NoRequest ==
    [status |-> "none", inPending |-> FALSE, inTimeouts |-> FALSE,
     inTerminations |-> FALSE, timerArmed |-> FALSE, sendAck |-> "none",
     response |-> "none", result |-> "pending", outer |-> "pending",
     fired |-> [response |-> 0, timeout |-> 0, terminator |-> 0], orphans |-> 0]

CleanupRequestKeepsTimer(q) ==
    [q EXCEPT !.inPending = FALSE, !.inTimeouts = FALSE, !.inTerminations = FALSE]

\* cleanupRequest: clearTimeout and the three map deletions.
CleanupRequest(q) ==
    [q EXCEPT !.timerArmed = FALSE, !.inPending = FALSE, !.inTimeouts = FALSE,
              !.inTerminations = FALSE]

\* A promise settles once: resolve and reject on a settled promise do nothing.
\* The outer promise follows the inner one (result.then(resolve).catch(reject)).
Settle(q, outcome) ==
    [q EXCEPT !.result = IF @ = "pending" THEN outcome ELSE @,
              !.outer = IF @ = "pending" /\ q.result = "pending" THEN outcome ELSE @]

TimeoutFnNoReject(q) ==
    [CleanupRequest(q) EXCEPT !.fired.timeout = @ + 1]

\* The callback stored in _requestTimeouts.
TimeoutFn(q) ==
    Settle([CleanupRequest(q) EXCEPT !.fired.timeout = @ + 1], "RequestTimeout")

\* The callback stored in _requestTerminations.
TerminationFn(q) ==
    Settle([CleanupRequest(q) EXCEPT !.fired.terminator = @ + 1], "RequestTerminated")

\* The callback stored in _pendingRequests: resolves on a 2xx status code and
\* rejects with Internal.RequestFailure otherwise.
ResponseFn(q, statusOk) ==
    Settle([CleanupRequest(q) EXCEPT !.fired.response = @ + 1],
           IF statusOk THEN "resolved" ELSE "RequestFailure")

\* _terminateRequests: every function in _requestTerminations is run.
TerminateRequests(rs) ==
    [r \in Reqs |-> IF rs[r].inTerminations THEN TerminationFn(rs[r]) ELSE rs[r]]

OnReceiverDetachedNoTerminate(c, rs) ==
    [rc |-> [c EXCEPT !.isListening = FALSE], reqs |-> rs]

\* The 'detached' handler of the response receiver.
OnReceiverDetached(c, rs) ==
    [rc |-> [c EXCEPT !.isListening = FALSE], reqs |-> TerminateRequests(rs)]

\* The 'message' listeners of the response receiver, run one after the other
\* on one response: the first finds the handler (if there is one), deletes
\* its entry and runs it; every listener that finds none emits
\* requestClientError(OrphanedResponse).
OnResponse(q, listeners, statusOk) ==
    IF listeners = 0
    THEN q
    ELSE IF q.inPending
         THEN [ResponseFn(q, statusOk) EXCEPT !.orphans = @ + (listeners - 1)]
         ELSE [q EXCEPT !.orphans = @ + listeners]

\* The requests with an entry in _pendingRequests.
PendingIds(rs) == {r \in Reqs : rs[r].inPending}

DeliverResponseInOrder(rs, id, listeners, statusOk) ==
    IF PendingIds(rs) = {}
    THEN [rs EXCEPT ![id] = OnResponse(@, listeners, statusOk)]
    ELSE LET first == CHOOSE r \in PendingIds(rs) : \A q \in PendingIds(rs) : r <= q
         IN  [rs EXCEPT ![first] = OnResponse(@, listeners, statusOk)]

\* A response with correlationId id on the response receiver: the listeners
\* look the handler up under that id in _pendingRequests.
DeliverResponse(rs, id, listeners, statusOk) ==
    [rs EXCEPT ![id] = OnResponse(@, listeners, statusOk)]

\* An AMQPClientState not created yet, and one as _getAMQPClient creates it.
\* cleanupTimer is whether the field holds a timer handle; timers counts the
\* setTimeout callbacks armed for the client and not yet run; cleaning is
\* _cleanupClient between the splice and the end of disconnect.
NoClient ==
    [created |-> FALSE, linksCount |-> 0, cleanupTimer |-> FALSE, timers |-> 0,
     cleaning |-> FALSE, disconnects |-> 0]
NewClient(numLinks) == [NoClient EXCEPT !.created = TRUE, !.linksCount = numLinks]
NoLease == [state |-> "none", client |-> 0, numLinks |-> 0]

\* new Sender(path, amqpClient, logFn): not disposed, no link yet. The fields
\* after disposing count what was done on the sender's behalf.
MaxSends == 2
MaxDisposes == 2
SendCalls == 1..MaxSends
NewSender ==
    [disposed |-> FALSE,
     ref |-> FALSE,           \* __sender is set
     created |-> "none",      \* the promise __sender.sender: creating, ready, failed
     attached |-> FALSE,      \* sender.state() === 'attached'
     disposing |-> "no",      \* dispose(): no, awaiting (the sender promise), done
     disposeCalls |-> 0,
     leases |-> 0,            \* getAMQPClient() calls
     releases |-> 0,          \* calls of the lease's dispose
     sessionEnds |-> 0,       \* session.end({ dispose: true }) calls
     linkSends |-> 0]         \* sender.send(...) calls on the link
NoSend ==
    [state |-> "none",        \* none, awaitLink, racing, settled
     outcome |-> "none",      \* how the promise of send() was settled
     settles |-> 0,           \* settlements of that promise
     timer |-> FALSE,         \* sendTimeout is armed
     under |-> "none",        \* the link's send promise: pending, done, failed
     descriptor |-> 0,        \* descriptor of the delivery state it resolved with
     afterDispose |-> FALSE]  \* _disposed was set when send() was called

\* new MessageListenerImpl(): _isListening true, the cleanup callback the
\* empty function (0; otherwise the number of the _connectReceiver call whose
\* cleanupCallback initialize was given). disposeCalls counts dispose().
MaxSetups == 2
MaxDisposeCalls == 2
MaxHandled == 1
Setups == 1..MaxSetups
NewMessageListener ==
    [isListening |-> TRUE, cleanupCallback |-> 0, disposeCalls |-> 0]

\* A call of _connectReceiver not made yet. rcv and mgmt are receiverPromise
\* and requestClientPromise (none, creating, ready, failed); iife is the
\* position of the async setup function (awaitReceiver, awaitClient,
\* listening, failed); timer is the reattach timer; the waiters are the runs
\* of cleanupCallback waiting for a promise; the rest counts what was done.
NoSetup ==
    [rcv |-> "none", mgmt |-> "none", iife |-> "none", timer |-> FALSE,
     cleanupRuns |-> 0, rcvWaiters |-> 0, mgmtWaiters |-> 0,
     rcvReleases |-> 0, mgmtReleases |-> 0, handled |-> 0]

\* No renewLock call yet: no token, nothing reordered.
MaxByte == 1
MaxReorders == 2
NoWire == [token |-> << >>, bytes |-> << >>, applied |-> 0]

\* One receiveBatch call, before it is made. The fields after outcome count
\* what the call did.
MaxBatch == 2
MaxBatchTimeout == 2
NoBatch ==
    [state |-> "none",        \* none, awaitLink, collecting, settled
     messageCount |-> 0,
     due |-> 0,               \* expiry time of receiveTimeout
     timer |-> FALSE,         \* receiveTimeout is armed
     listeners |-> FALSE,     \* 'message' and 'detached' listeners are installed
     messages |-> << >>,      \* arrival times of the messages pushed so far
     result |-> << >>,        \* the array the promise was resolved with
     outcome |-> "none",      \* batchFull, batchTimeout, detached, linkError
     settles |-> 0,
     addCredits |-> << >>,    \* arguments of the receiver.addCredits calls
     leases |-> 0,            \* getAMQPClient() calls
     releases |-> 0,          \* calls of the lease's dispose
     sessionEnds |-> 0]       \* session.end({ dispose: true }) calls

\* The renewal schedule of one lock token. Times are in ticks of TickMs, the
\* largest unit that measures both the renewal interval and the request
\* timeout exactly.
amqpRequestTimeout == 15000
serviceBusDeliveryTimeout == 30000
renewThresholdPct == 75
MaxNow == 12
Infinity == -1

RECURSIVE GCD(_, _)
GCD(a, b) == IF b = 0 THEN a ELSE GCD(b, a % b)

TimeUntilRenewalMs == (serviceBusDeliveryTimeout * renewThresholdPct) \div 100
TickMs == GCD(TimeUntilRenewalMs, amqpRequestTimeout)
TimeUntilRenewal == TimeUntilRenewalMs \div TickMs
RequestTimeoutTicks == amqpRequestTimeout \div TickMs
TwoDeliveryTimeouts == (2 * serviceBusDeliveryTimeout) \div TickMs
AutoRenewTimeouts == {0, TimeUntilRenewal, TwoDeliveryTimeouts, Infinity}

\* Date.now() + config.autoRenewTimeout, and deadline > time.
DeadlineFrom(t, autoRenewTimeout) ==
    IF autoRenewTimeout = Infinity THEN Infinity ELSE t + autoRenewTimeout
Later(deadline, t) == deadline = Infinity \/ deadline > t

NoRenewal ==
    [autoRenewTimeout |-> 0,
     state |-> "None",        \* processingState of the message
     first |-> 0,             \* time of the first _scheduleRenewal call
     hasTimeout |-> FALSE,    \* renewalTimeouts.has(lockToken)
     deadline |-> 0,          \* the value last set in renewalTimeouts
     hasTimer |-> FALSE,      \* renewalTimers.has(lockToken)
     pending |-> {},          \* expiry times of the armed setTimeout callbacks
     inflight |-> FALSE,      \* a renew-lock request awaits its response
     calls |-> << >>,         \* times at which a renew-lock request was sent
     ends |-> << >>,          \* times at which those requests were resolved
     errors |-> 0]            \* receiverError events emitted by the timer callback

\* onMessage: the options merged over the defaults, a MessageListenerImpl and
\* the first call of _connectReceiver.
Init ==
    /\ config \in [receiveMode : ReceiveModes, autoComplete : BOOLEAN,
                   maxConcurrentCalls : 1..MaxConcurrent]
    /\ phase = "connecting"
    /\ isListening = TRUE
    /\ attempts = 1
    /\ emitted = NoEvents
    /\ link = NoLink
    /\ cm = NewCreditManager(config.receiveMode, config.maxConcurrentCalls,
                             Threshold(config.maxConcurrentCalls))
    /\ msgs = [m \in Msgs |-> Undelivered]
    /\ cmHist = NoCmHist
    /\ rc = NewRequestClient
    /\ reqs = [r \in Reqs |-> NoRequest]
    /\ clientsArr = << >>
    /\ clientStates = [c \in Lessees |-> NoClient]
    /\ leases = [l \in Lessees |-> NoLease]
    /\ now = 0
    /\ rn = NoRenewal
    /\ sender = NewSender
    /\ sends = [i \in SendCalls |-> NoSend]
    /\ batch = NoBatch
    /\ wire = NoWire
    /\ messageListener = NewMessageListener
    /\ setups = [k \in Setups |-> NoSetup]
    /\ linksCount = 0

Next ==
    \/ ReceiverLinkCreated
    \/ RequestClientReady
    \/ InitFail
    \/ ReattachTimer
    \/ Deliver
    \/ \E m \in Msgs, kind \in UserDispositions, delayed \in BOOLEAN : UserSettle(m, kind, delayed)
    \/ \E m \in Msgs : SettleTimer(m)
    \/ \E m \in Msgs, succeeded \in BOOLEAN : HandlerDone(m, succeeded)
    \/ LinkDetached

Spec == Init /\ [][Next]_vars

\* ------------------------------------------------ SpecCM: credit manager
\* setReceiver(link) with a link in any state and with any credit left.
CMSetReceiver(st, credit) ==
    /\ ~cm.linkSet
    /\ cm' = [cm EXCEPT !.linkSet = TRUE]
    /\ link' = [state |-> st, linkCredit |-> credit, added |-> 0]
    /\ UNCHANGED <<rcvVars, cmHist, rc, reqs, poolVars, renewVars, sendVars, batch, lateVars>>

\* scheduleMessageSettle(tok). Without a link refreshCredits throws after the
\* counter and the pending set were updated.
CMScheduleMessageSettle(tok) ==
    /\ LET r == ScheduleMessageSettle(cm, link, tok)
       IN  cm' = r.cm /\ link' = r.link
    /\ cmHist' = [cmHist EXCEPT !.scheduled = @ \cup {tok},
                                !.late = IF tok \in cmHist.settled THEN @ \cup {tok} ELSE @]
    /\ UNCHANGED <<rcvVars, rc, reqs, poolVars, renewVars, sendVars, batch, lateVars>>

\* settleMessage(tok), for a token not settled before.
CMSettleMessage(tok) ==
    /\ tok \notin cmHist.settled
    /\ LET r == SettleMessage(cm, link, tok)
       IN  cm' = r.cm /\ link' = r.link
    /\ cmHist' = [cmHist EXCEPT !.settled = @ \cup {tok}]
    /\ UNCHANGED <<rcvVars, rc, reqs, poolVars, renewVars, sendVars, batch, lateVars>>

\* refreshCredits() called directly (as the receiver does on each delivery);
\* without a link it throws Link.NotFound and changes nothing.
CMRefreshCredits ==
    /\ cm.linkSet
    /\ LET r == RefreshCredits(cm, link)
       IN  cm' = r.cm /\ link' = r.link
    /\ UNCHANGED <<rcvVars, cmHist, rc, reqs, poolVars, renewVars, sendVars, batch, lateVars>>

\* The broker uses one credit of the attached link.
CMCreditUsed ==
    /\ link.state = "attached"
    /\ link.linkCredit > 0
    /\ link' = [link EXCEPT !.linkCredit = @ - 1]
    /\ UNCHANGED <<rcvVars, cm, cmHist, rc, reqs, poolVars, renewVars, sendVars, batch, lateVars>>

\* The link detaches or attaches again.
CMLinkState ==
    /\ link.state \in {"attached", "detached"}
    /\ link' = [link EXCEPT !.state = IF @ = "attached" THEN "detached" ELSE "attached"]
    /\ UNCHANGED <<rcvVars, cm, cmHist, rc, reqs, poolVars, renewVars, sendVars, batch, lateVars>>

\* CreditManager.create with any mode, initial credit and threshold.
InitCM ==
    /\ config = [receiveMode |-> "PeekLock", autoComplete |-> TRUE, maxConcurrentCalls |-> 1]
    /\ phase = "connecting"
    /\ isListening = TRUE
    /\ attempts = 1
    /\ emitted = NoEvents
    /\ link = NoLink
    /\ cm \in {NewCreditManager(mode, initialCredit, threshold) :
                  mode \in ReceiveModes, initialCredit \in 1..MaxCredit,
                  threshold \in 0..MaxCredit}
    /\ msgs = [m \in Msgs |-> Undelivered]
    /\ cmHist = NoCmHist
    /\ rc = NewRequestClient
    /\ reqs = [r \in Reqs |-> NoRequest]
    /\ clientsArr = << >>
    /\ clientStates = [c \in Lessees |-> NoClient]
    /\ leases = [l \in Lessees |-> NoLease]
    /\ now = 0
    /\ rn = NoRenewal
    /\ sender = NewSender
    /\ sends = [i \in SendCalls |-> NoSend]
    /\ batch = NoBatch
    /\ wire = NoWire
    /\ messageListener = NewMessageListener
    /\ setups = [k \in Setups |-> NoSetup]
    /\ linksCount = 0

NextCM ==
    \/ \E st \in {"attached", "detached"}, credit \in 0..MaxCredit : CMSetReceiver(st, credit)
    \/ \E tok \in Tokens : CMScheduleMessageSettle(tok)
    \/ \E tok \in Tokens : CMSettleMessage(tok)
    \/ CMRefreshCredits
    \/ CMCreditUsed
    \/ CMLinkState

SpecCM == InitCM /\ [][NextCM]_vars

\* ------------------------------------------------ SpecRC: request client
\* _sendRequest: rejected at once with Internal.RequestFailure when the
\* sender cannot send or the response receiver is not attached; otherwise the
\* three map entries are made, the timer is armed and the request is sent.
\* Requests on a disposed client are not modelled.
SendRequest(r, canSend) ==
    /\ ~rc.disposed
    /\ reqs[r].status = "none"
    /\ reqs' = [reqs EXCEPT ![r] =
            IF ~canSend \/ rc.receiver # "attached"
            THEN [@ EXCEPT !.status = "refused", !.outer = "RequestFailure"]
            ELSE [@ EXCEPT !.status = "sent", !.inPending = TRUE, !.inTimeouts = TRUE,
                           !.inTerminations = TRUE, !.timerArmed = TRUE,
                           !.sendAck = "pending"]]
    /\ UNCHANGED <<rcvVars, link, cm, cmHist, rc, poolVars, renewVars, sendVars, batch, lateVars>>

\* The promise of sender.send settles: on a failure the outer promise is
\* rejected with Internal.RequestFailure and nothing else is touched.
SendAck(r, ok) ==
    /\ reqs[r].sendAck = "pending"
    /\ reqs' = [reqs EXCEPT ![r] =
            IF ok THEN [@ EXCEPT !.sendAck = "ok"]
            ELSE [@ EXCEPT !.sendAck = "failed",
                           !.outer = IF @ = "pending" THEN "RequestFailure" ELSE @]]
    /\ UNCHANGED <<rcvVars, link, cm, cmHist, rc, poolVars, renewVars, sendVars, batch, lateVars>>

\* The broker's response to a request it has received arrives on the
\* attached response receiver, with a 2xx status or not.
ResponseArrives(r, statusOk) ==
    /\ rc.receiver = "attached"
    /\ reqs[r].status = "sent"
    /\ reqs[r].sendAck # "failed"
    /\ reqs[r].response = "none"
    /\ reqs' = [DeliverResponse(reqs, r, rc.listeners, statusOk)
                    EXCEPT ![r].response = "delivered"]
    /\ UNCHANGED <<rcvVars, link, cm, cmHist, rc, poolVars, renewVars, sendVars, batch, lateVars>>

\* The request's timer expires (constants.amqpRequestTimeout).
RequestTimeout(r) ==
    /\ reqs[r].timerArmed
    /\ reqs' = [reqs EXCEPT ![r] = [TimeoutFn(@) EXCEPT !.timerArmed = FALSE]]
    /\ UNCHANGED <<rcvVars, link, cm, cmHist, rc, poolVars, renewVars, sendVars, batch, lateVars>>

\* The response receiver detaches; its 'detached' handler runs unless dispose
\* has removed it.
ReceiverDetached ==
    /\ rc.receiver = "attached"
    /\ LET r == IF rc.disposed THEN [rc |-> rc, reqs |-> reqs]
                ELSE OnReceiverDetached(rc, reqs)
       IN  /\ rc' = [r.rc EXCEPT !.receiver = "detached"]
           /\ reqs' = r.reqs
    /\ UNCHANGED <<rcvVars, link, cm, cmHist, poolVars, renewVars, sendVars, batch, lateVars>>

OnReceiverAttachedAlwaysListens(c) ==
    [c EXCEPT !.listeners = @ + 1, !.isListening = TRUE]

\* The 'attached' handler of the response receiver: when not listening,
\* _listenToResponses installs one more 'message' listener.
OnReceiverAttached(c) ==
    IF ~c.isListening
    THEN [c EXCEPT !.listeners = @ + 1, !.isListening = TRUE]
    ELSE c

\* The response receiver emits 'attached', after a detach or once more while
\* it is attached; the handler runs unless dispose has removed it.
ReceiverAttached ==
    /\ rc.listeners < MaxListeners
    /\ rc' = [(IF rc.disposed THEN rc ELSE OnReceiverAttached(rc))
                EXCEPT !.receiver = "attached"]
    /\ UNCHANGED <<rcvVars, link, cm, cmHist, reqs, poolVars, renewVars, sendVars, batch, lateVars>>

\* dispose: every timer cleared, every request terminated, all listeners
\* removed.
DisposeRequestClient ==
    /\ ~rc.disposed
    /\ rc' = [rc EXCEPT !.disposed = TRUE, !.listeners = 0]
    /\ reqs' = TerminateRequests([r \in Reqs |-> [reqs[r] EXCEPT !.timerArmed = FALSE]])
    /\ UNCHANGED <<rcvVars, link, cm, cmHist, poolVars, renewVars, sendVars, batch, lateVars>>

NextRC ==
    \/ \E r \in Reqs, canSend \in BOOLEAN : SendRequest(r, canSend)
    \/ \E r \in Reqs, ok \in BOOLEAN : SendAck(r, ok)
    \/ \E r \in Reqs, statusOk \in BOOLEAN : ResponseArrives(r, statusOk)
    \/ \E r \in Reqs : RequestTimeout(r)
    \/ ReceiverDetached
    \/ ReceiverAttached
    \/ DisposeRequestClient

\* AmqpRequestClient.create for a receiver listening with the default options.
InitRC ==
    /\ Init
    /\ config = [receiveMode |-> "PeekLock", autoComplete |-> TRUE, maxConcurrentCalls |-> 1]

SpecRC == InitRC /\ [][NextRC]_vars

\* A timer armed by setTimeout runs its callback unless it is cleared first.
FairnessRC == \A r \in Reqs : WF_vars(RequestTimeout(r))

SpecRCLive == SpecRC /\ FairnessRC

\* ------------------------------------------------------ connection pool
\* The scan of _getAMQPClient: positions of _clients with room for numLinks.
WithRoom(arr, cs, numLinks) ==
    {i \in 1..Len(arr) : cs[arr[i]].linksCount + numLinks <= HandleMax}
FirstWithRoom(arr, cs, numLinks) ==
    arr[CHOOSE i \in WithRoom(arr, cs, numLinks) :
            \A j \in WithRoom(arr, cs, numLinks) : i <= j]
NextClientId(cs) == Cardinality({c \in Lessees : cs[c].created}) + 1

GetClientAlwaysNew(arr, cs, numLinks) ==
    LET c == NextClientId(cs)
    IN  [arr |-> Append(arr, c),
         cs |-> [cs EXCEPT ![c] = NewClient(numLinks)],
         client |-> c]

\* _getAMQPClient(numLinks): the first pooled client with room gets the links
\* and its cleanupTimer field set to null; a new client is pushed otherwise.
GetClient(arr, cs, numLinks) ==
    IF WithRoom(arr, cs, numLinks) # {}
    THEN LET c == FirstWithRoom(arr, cs, numLinks)
         IN  [arr |-> arr,
              cs |-> [cs EXCEPT ![c].linksCount = @ + numLinks, ![c].cleanupTimer = FALSE],
              client |-> c]
    ELSE LET c == NextClientId(cs)
         IN  [arr |-> Append(arr, c),
              cs |-> [cs EXCEPT ![c] = NewClient(numLinks)],
              client |-> c]

\* _scheduleCleanup: arms a timer unless the field holds one.
ScheduleCleanup(st) ==
    IF st.cleanupTimer THEN st
    ELSE [st EXCEPT !.cleanupTimer = TRUE, !.timers = @ + 1]

\* The dispose closure returned by getAMQPClient.
DisposeLease(st, numLinks) ==
    LET st1 == [st EXCEPT !.linksCount = IF @ - numLinks >= 0 THEN @ - numLinks ELSE 0]
    IN  IF st1.linksCount = 0 THEN ScheduleCleanup(st1) ELSE st1

\* getAMQPClient(numLinks) called by a new lessee; lessees are numbered in
\* the order of their calls.
Lease(l, numLinks) ==
    /\ leases[l].state = "none"
    /\ \A k \in Lessees : k < l => leases[k].state # "none"
    /\ LET r == GetClient(clientsArr, clientStates, numLinks)
       IN  /\ clientsArr' = r.arr
           /\ clientStates' = r.cs
           /\ leases' = [leases EXCEPT ![l] =
                  [state |-> "held", client |-> r.client, numLinks |-> numLinks]]
    /\ UNCHANGED <<rcvVars, link, cm, cmHist, rc, reqs, renewVars, sendVars, batch, lateVars>>

\* The lessee calls dispose: the first time, or once more.
Release(l) ==
    /\ leases[l].state \in {"held", "released", "releasedAgain"}
    /\ clientStates' = [clientStates EXCEPT ![leases[l].client] =
                            DisposeLease(@, leases[l].numLinks)]
    /\ leases' = [leases EXCEPT ![l].state =
                      IF @ = "held" THEN "released" ELSE "releasedAgain"]
    /\ UNCHANGED <<rcvVars, link, cm, cmHist, rc, reqs, clientsArr, renewVars, sendVars, batch, lateVars>>

InPool(arr, c) == \E i \in 1..Len(arr) : arr[i] = c
Without(arr, c) == SelectSeq(arr, LAMBDA x : x # c)

CleanupClientNoCheck(arr, cs, c) ==
    IF InPool(arr, c)
    THEN [arr |-> Without(arr, c), cs |-> [cs EXCEPT ![c].cleaning = TRUE]]
    ELSE [arr |-> arr, cs |-> cs]

\* _cleanupClient up to its first await: a client still in _clients with no
\* links is spliced out; its disconnect follows.
CleanupClient(arr, cs, c) ==
    IF InPool(arr, c) /\ cs[c].linksCount = 0
    THEN [arr |-> Without(arr, c), cs |-> [cs EXCEPT ![c].cleaning = TRUE]]
    ELSE [arr |-> arr, cs |-> cs]

\* A cleanup timer expires, constants.amqpClientCleanupDelayMs after it was
\* armed.
CleanupTimerFires(c) ==
    /\ clientStates[c].timers > 0
    /\ LET r == CleanupClient(clientsArr, [clientStates EXCEPT ![c].timers = @ - 1], c)
       IN  clientsArr' = r.arr /\ clientStates' = r.cs
    /\ UNCHANGED <<rcvVars, link, cm, cmHist, rc, reqs, leases, renewVars, sendVars, batch, lateVars>>

\* _cleanupClient after amqpClient.disconnect() has finished.
DisconnectDone(c) ==
    /\ clientStates[c].cleaning
    /\ clientStates' = [clientStates EXCEPT ![c].cleaning = FALSE,
                                             ![c].disconnects = @ + 1,
                                             ![c].cleanupTimer = FALSE]
    /\ UNCHANGED <<rcvVars, link, cm, cmHist, rc, reqs, clientsArr, leases, renewVars, sendVars, batch, lateVars>>

NextPool ==
    \/ \E l \in Lessees, numLinks \in LinkCounts : Lease(l, numLinks)
    \/ \E l \in Lessees : Release(l)
    \/ \E c \in Lessees : CleanupTimerFires(c)
    \/ \E c \in Lessees : DisconnectDone(c)

\* new ClientManager(connectionString): an empty pool.
InitPool ==
    /\ Init
    /\ config = [receiveMode |-> "PeekLock", autoComplete |-> TRUE, maxConcurrentCalls |-> 1]

SpecPool == InitPool /\ [][NextPool]_vars

\* ------------------------------------------------------------ lock renewal
ScheduleRenewalNoWindow(r, t) ==
    IF r.state \in {"Settled", "SettleFailed"}
    THEN [r EXCEPT !.hasTimer = FALSE, !.hasTimeout = FALSE]
    ELSE LET r1 == IF r.hasTimeout THEN r
                   ELSE [r EXCEPT !.hasTimeout = TRUE,
                                  !.deadline = DeadlineFrom(t, r.autoRenewTimeout)]
         IN  [r1 EXCEPT !.hasTimer = TRUE, !.pending = @ \cup {t + TimeUntilRenewal}]

\* Receiver._scheduleRenewal at time t: a Settled or SettleFailed message
\* loses its entries; otherwise the deadline is set on the first call and a
\* timer is armed TimeUntilRenewal ahead if the deadline is later than that,
\* else the entries are deleted.
ScheduleRenewal(r, t) ==
    IF r.state \in {"Settled", "SettleFailed"}
    THEN [r EXCEPT !.hasTimer = FALSE, !.hasTimeout = FALSE]
    ELSE LET r1 == IF r.hasTimeout THEN r
                   ELSE [r EXCEPT !.hasTimeout = TRUE,
                                  !.deadline = DeadlineFrom(t, r.autoRenewTimeout)]
         IN  IF Later(r1.deadline, t + TimeUntilRenewal)
             THEN [r1 EXCEPT !.hasTimer = TRUE, !.pending = @ \cup {t + TimeUntilRenewal}]
             ELSE [r1 EXCEPT !.hasTimer = FALSE, !.hasTimeout = FALSE]

otherVars == <<rcvVars, link, cm, cmHist, rc, reqs, poolVars, sendVars, batch, lateVars>>

\* The 'message' handler builds the brokered message and calls
\* _scheduleRenewal; settled is receiveMode # PeekLock.
RenewDeliver(settled) ==
    /\ rn.state = "None"
    /\ rn' = ScheduleRenewal([rn EXCEPT !.state = IF settled THEN "Settled" ELSE "Active",
                                        !.first = now], now)
    /\ UNCHANGED <<now, otherVars>>

\* The message changes processingState: a delayed settlement is scheduled
\* (Settling), or a settlement succeeds (Settled) or fails (SettleFailed).
\* Settlement does not touch the renewal schedule.
RenewSettles(to) ==
    /\ \/ rn.state = "Active" /\ to \in {"Settling", "Settled", "SettleFailed"}
       \/ rn.state = "Settling" /\ to \in {"Settled", "SettleFailed"}
    /\ rn' = [rn EXCEPT !.state = to]
    /\ UNCHANGED <<now, otherVars>>

RenewalCallbackReschedulesFirst(r, t) ==
    IF r.state = "Settled"
    THEN [r EXCEPT !.hasTimer = FALSE, !.hasTimeout = FALSE]
    ELSE IF r.state = "SettleFailed"
    THEN ScheduleRenewal(r, t)
    ELSE [ScheduleRenewal(r, t) EXCEPT !.inflight = TRUE, !.calls = Append(@, t)]

RenewalCallbackNoSettledCheck(r, t) ==
    IF r.state = "SettleFailed"
    THEN ScheduleRenewal(r, t)
    ELSE [r EXCEPT !.inflight = TRUE, !.calls = Append(@, t)]

RenewalCallback(r, t) ==
    IF r.state = "Settled"
    THEN [r EXCEPT !.hasTimer = FALSE, !.hasTimeout = FALSE]
    ELSE IF r.state = "SettleFailed"
    THEN ScheduleRenewal(r, t)
    ELSE [r EXCEPT !.inflight = TRUE, !.calls = Append(@, t)]

\* The renewal timer's callback up to its await: a Settled message loses its
\* entries; for a SettleFailed one renewLock() sends nothing and
\* _scheduleRenewal runs; otherwise the renew-lock request is sent.
RenewalTimerFires ==
    /\ now \in rn.pending
    /\ rn' = RenewalCallback([rn EXCEPT !.pending = @ \ {now}], now)
    /\ UNCHANGED <<now, otherVars>>

LastCall == rn.calls[Len(rn.calls)]

\* message.renewLock() is resolved: after a response _scheduleRenewal runs
\* again; a failure (Message.LockRenewalTimeout once amqpRequestTimeout has
\* passed, or Message.LockRenewalFailure) is emitted as receiverError.
RenewLockDone(ok) ==
    /\ rn.inflight
    /\ ok => now - LastCall < RequestTimeoutTicks
    /\ LET r == [rn EXCEPT !.inflight = FALSE, !.ends = Append(@, now)]
       IN  rn' = IF ok THEN ScheduleRenewal(r, now)
                 ELSE [r EXCEPT !.errors = @ + 1]
    /\ UNCHANGED <<now, otherVars>>

\* Time passes. A timer fires when it is due and a request is resolved by
\* its timeout at the latest.
Tick ==
    /\ now < MaxNow
    /\ \A due \in rn.pending : due > now
    /\ rn.inflight => now - LastCall < RequestTimeoutTicks
    /\ now' = now + 1
    /\ UNCHANGED <<rn, otherVars>>

NextRenew ==
    \/ \E settled \in BOOLEAN : RenewDeliver(settled)
    \/ \E to \in {"Settling", "Settled", "SettleFailed"} : RenewSettles(to)
    \/ RenewalTimerFires
    \/ \E ok \in BOOLEAN : RenewLockDone(ok)
    \/ Tick

\* A listener whose options carry one of the autoRenewTimeout values, before
\* its message arrives.
InitRenew ==
    /\ config = [receiveMode |-> "PeekLock", autoComplete |-> TRUE, maxConcurrentCalls |-> 1]
    /\ phase = "connecting"
    /\ isListening = TRUE
    /\ attempts = 1
    /\ emitted = NoEvents
    /\ link = NoLink
    /\ cm = NewCreditManager(config.receiveMode, config.maxConcurrentCalls,
                             Threshold(config.maxConcurrentCalls))
    /\ msgs = [m \in Msgs |-> Undelivered]
    /\ cmHist = NoCmHist
    /\ rc = NewRequestClient
    /\ reqs = [r \in Reqs |-> NoRequest]
    /\ clientsArr = << >>
    /\ clientStates = [c \in Lessees |-> NoClient]
    /\ leases = [l \in Lessees |-> NoLease]
    /\ now = 0
    /\ rn \in {[NoRenewal EXCEPT !.autoRenewTimeout = a] : a \in AutoRenewTimeouts}
    /\ sender = NewSender
    /\ sends = [i \in SendCalls |-> NoSend]
    /\ batch = NoBatch
    /\ wire = NoWire
    /\ messageListener = NewMessageListener
    /\ setups = [k \in Setups |-> NoSetup]
    /\ linksCount = 0

SpecRenew == InitRenew /\ [][NextRenew]_vars

\* ------------------------------------------------------------------ sender
AMQP_REJECTED_DESCRIPTOR == 37
Descriptors == (AMQP_REJECTED_DESCRIPTOR - 1)..(AMQP_REJECTED_DESCRIPTOR + 2)

\* The getter _sender: the first access leases a connection and starts
\* creating the session and the sender link.
SenderRef(s) ==
    IF s.ref THEN s
    ELSE [s EXCEPT !.ref = TRUE, !.created = "creating", !.attached = FALSE,
                   !.leases = @ + 1]

\* Sender.canSend(), as its promise resolves.
CanSend(s) == IF s.disposed THEN FALSE ELSE s.created = "ready" /\ s.attached

SendOutcomeAlwaysResolves(descriptor) == "resolved"

\* The check of the delivery state after the race.
SendOutcome(descriptor) ==
    IF descriptor = AMQP_REJECTED_DESCRIPTOR THEN "Send.Rejected" ELSE "resolved"

CompleteSendOverrides(sd, under, descriptor, outcome) ==
    [sd EXCEPT !.under = under, !.descriptor = descriptor, !.timer = FALSE,
               !.state = "settled", !.outcome = outcome, !.settles = @ + 1]

\* The then / catch of the link's send promise: clearTimeout, then resolve or
\* reject, which does nothing on a promise the timer has rejected.
CompleteSend(sd, under, descriptor, outcome) ==
    IF sd.state = "racing"
    THEN [sd EXCEPT !.under = under, !.descriptor = descriptor, !.timer = FALSE,
                    !.state = "settled", !.outcome = outcome, !.settles = @ + 1]
    ELSE [sd EXCEPT !.under = under, !.descriptor = descriptor, !.timer = FALSE]

sendOther == <<rcvVars, link, cm, cmHist, rc, reqs, poolVars, renewVars, batch, lateVars>>

\* canSend() on a sender that is not disposed reads _sender.
CanSendCall ==
    /\ ~sender.disposed
    /\ ~sender.ref
    /\ sender' = SenderRef(sender)
    /\ UNCHANGED <<sends, sendOther>>

\* send(message, timeoutMs) up to its first await.
SendCall(i) ==
    /\ sends[i].state = "none"
    /\ \A k \in SendCalls : k < i => sends[k].state # "none"
    /\ IF sender.disposed
       THEN /\ sends' = [sends EXCEPT ![i] = [@ EXCEPT !.state = "settled",
                              !.outcome = "Send.Disposed", !.settles = @ + 1,
                              !.afterDispose = TRUE]]
            /\ sender' = sender
       ELSE /\ sends' = [sends EXCEPT ![i].state = "awaitLink"]
            /\ sender' = SenderRef(sender)
    /\ UNCHANGED sendOther

\* The promise of the session and the sender link resolves or rejects.
SenderLinkCreated(ok) ==
    /\ sender.created = "creating"
    /\ sender' = [sender EXCEPT !.created = IF ok THEN "ready" ELSE "failed",
                                 !.attached = ok]
    /\ UNCHANGED <<sends, sendOther>>

\* The sender link detaches or attaches again.
SenderLinkState(attached) ==
    /\ sender.created = "ready"
    /\ sender.attached # attached
    /\ sender' = [sender EXCEPT !.attached = attached]
    /\ UNCHANGED <<sends, sendOther>>

\* send() after await this._sender.sender: a failed link creation rejects
\* the call; otherwise the timer is armed and the message goes to the link.
SendProceeds(i) ==
    /\ sends[i].state = "awaitLink"
    /\ sender.created \in {"ready", "failed"}
    /\ IF sender.created = "failed"
       THEN /\ sends' = [sends EXCEPT ![i] = [@ EXCEPT !.state = "settled",
                              !.outcome = "linkError", !.settles = @ + 1]]
            /\ sender' = sender
       ELSE /\ sends' = [sends EXCEPT ![i] = [@ EXCEPT !.state = "racing",
                              !.timer = TRUE, !.under = "pending"]]
            /\ sender' = [sender EXCEPT !.linkSends = @ + 1]
    /\ UNCHANGED sendOther

\* The link's send promise resolves with a delivery state.
UnderlyingCompletes(i, descriptor) ==
    /\ sends[i].under = "pending"
    /\ sends' = [sends EXCEPT ![i] =
                     CompleteSend(@, "done", descriptor, SendOutcome(descriptor))]
    /\ UNCHANGED <<sender, sendOther>>

\* The link's send promise rejects.
UnderlyingFails(i) ==
    /\ sends[i].under = "pending"
    /\ sends' = [sends EXCEPT ![i] = CompleteSend(@, "failed", 0, "sendError")]
    /\ UNCHANGED <<sender, sendOther>>

\* sendTimeout fires, timeoutMs after it was armed.
SendTimerFires(i) ==
    /\ sends[i].timer
    /\ sends' = [sends EXCEPT ![i] =
                     IF @.state = "racing"
                     THEN [@ EXCEPT !.timer = FALSE, !.state = "settled",
                                    !.outcome = "Send.Timeout", !.settles = @ + 1]
                     ELSE [@ EXCEPT !.timer = FALSE]]
    /\ UNCHANGED <<sender, sendOther>>

\* dispose() up to its await: the first call sets _disposed and reads
\* _sender; a later call does nothing.
DisposeSender ==
    /\ sender.disposeCalls < MaxDisposes
    /\ sender' = IF sender.disposed
                 THEN [sender EXCEPT !.disposeCalls = @ + 1]
                 ELSE [SenderRef(sender) EXCEPT !.disposed = TRUE,
                                                !.disposing = "awaiting",
                                                !.disposeCalls = @ + 1]
    /\ UNCHANGED <<sends, sendOther>>

\* dispose() after await senderPromise: the session is ended, the listeners
\* removed and the lease released; a rejected promise is swallowed by the
\* catch before any of that.
DisposeSenderProceeds ==
    /\ sender.disposing = "awaiting"
    /\ sender.created \in {"ready", "failed"}
    /\ sender' = IF sender.created = "ready"
                 THEN [sender EXCEPT !.disposing = "done", !.sessionEnds = @ + 1,
                                     !.releases = @ + 1, !.ref = FALSE]
                 ELSE [sender EXCEPT !.disposing = "done"]
    /\ UNCHANGED <<sends, sendOther>>

NextSend ==
    \/ CanSendCall
    \/ \E i \in SendCalls : SendCall(i)
    \/ \E ok \in BOOLEAN : SenderLinkCreated(ok)
    \/ \E attached \in BOOLEAN : SenderLinkState(attached)
    \/ \E i \in SendCalls : SendProceeds(i)
    \/ \E i \in SendCalls, descriptor \in Descriptors : UnderlyingCompletes(i, descriptor)
    \/ \E i \in SendCalls : UnderlyingFails(i)
    \/ \E i \in SendCalls : SendTimerFires(i)
    \/ DisposeSender
    \/ DisposeSenderProceeds

InitSend ==
    /\ Init
    /\ config = [receiveMode |-> "PeekLock", autoComplete |-> TRUE, maxConcurrentCalls |-> 1]

SpecSend == InitSend /\ [][NextSend]_vars

\* ------------------------------------------------------------ receiveBatch
serviceBusServerTimeout == 60000

\* timeoutMs is optional: << >> when it is not given, else <<ticks>>.
BatchTimeouts == {<< >>} \cup {<<t>> : t \in 0..MaxBatchTimeout}
TimeoutOrDefault(timeoutMs) ==
    IF timeoutMs = << >> THEN serviceBusServerTimeout \div TickMs ELSE timeoutMs[1]

BatchDisposeKeepsTimer(b) ==
    [b EXCEPT !.listeners = FALSE, !.sessionEnds = @ + 1, !.releases = @ + 1]

\* dispose of receiveBatch: the timer is cleared, the session ended, the
\* listeners removed and the lease released.
BatchDispose(b) ==
    [b EXCEPT !.timer = FALSE, !.listeners = FALSE,
              !.sessionEnds = @ + 1, !.releases = @ + 1]

\* resolve or reject of the promise receiveBatch returns.
BatchSettle(b, outcome) ==
    IF b.state = "settled" THEN b
    ELSE [b EXCEPT !.state = "settled", !.outcome = outcome, !.settles = @ + 1,
                   !.result = IF outcome = "detached" THEN << >> ELSE b.messages]

batchOther == <<rcvVars, link, cm, cmHist, rc, reqs, poolVars, rn, sendVars, lateVars>>

\* receiveBatch(messageCount, timeoutMs) up to await receiverPromise.
ReceiveBatchCall(messageCount, timeoutMs) ==
    /\ batch.state = "none"
    /\ batch' = [batch EXCEPT !.state = "awaitLink", !.messageCount = messageCount,
                               !.due = TimeoutOrDefault(timeoutMs), !.leases = @ + 1]
    /\ UNCHANGED <<now, batchOther>>

\* The receiver link is there: the timer is armed, the listeners installed
\* and the credits added; or its creation failed and the call rejects.
BatchLinkCreated(ok) ==
    /\ batch.state = "awaitLink"
    /\ batch' = IF ok
                THEN [batch EXCEPT !.state = "collecting", !.due = now + @,
                                   !.timer = TRUE, !.listeners = TRUE,
                                   !.addCredits = Append(@, batch.messageCount)]
                ELSE [batch EXCEPT !.state = "settled", !.outcome = "linkError",
                                   !.settles = @ + 1]
    /\ UNCHANGED <<now, batchOther>>

\* The 'message' listener: the broker uses one of the credits it was given.
BatchMessage ==
    /\ batch.listeners
    /\ Len(batch.messages) < batch.messageCount
    /\ LET b == [batch EXCEPT !.messages = Append(@, now)]
       IN  batch' = IF Len(b.messages) >= b.messageCount
                    THEN BatchSettle(BatchDispose(b), "batchFull")
                    ELSE b
    /\ UNCHANGED <<now, batchOther>>

\* receiveTimeout fires.
BatchTimerFires ==
    /\ batch.timer
    /\ batch.due = now
    /\ batch' = BatchSettle(BatchDispose(batch), "batchTimeout")
    /\ UNCHANGED <<now, batchOther>>

\* The 'detached' listener.
BatchDetached ==
    /\ batch.listeners
    /\ batch' = BatchSettle(BatchDispose(batch), "detached")
    /\ UNCHANGED <<now, batchOther>>

\* Time passes while the call waits; the timer fires when it is due.
BatchTick ==
    /\ now < MaxNow
    /\ \/ batch.state = "awaitLink"
       \/ batch.timer /\ batch.due > now
    /\ now' = now + 1
    /\ UNCHANGED <<batch, batchOther>>

NextBatch ==
    \/ \E messageCount \in 0..MaxBatch, timeoutMs \in BatchTimeouts :
          ReceiveBatchCall(messageCount, timeoutMs)
    \/ \E ok \in BOOLEAN : BatchLinkCreated(ok)
    \/ BatchMessage
    \/ BatchTimerFires
    \/ BatchDetached
    \/ BatchTick

InitBatch ==
    /\ Init
    /\ config = [receiveMode |-> "PeekLock", autoComplete |-> TRUE, maxConcurrentCalls |-> 1]

SpecBatch == InitBatch /\ [][NextBatch]_vars

\* ------------------------------------------- listener setup and teardown
\* The operators below work on st = [ml, setups, lc]: the MessageListenerImpl,
\* the calls of _connectReceiver and the links leased from the ClientManager.
SetupState == [ml |-> messageListener, setups |-> setups, lc |-> linksCount]

\* The dispose closure of getAMQPClient(numLinks), seen from the lessee: the
\* links are given back, the count floored at 0.
DisposeLinks(lc, numLinks) == IF lc - numLinks >= 0 THEN lc - numLinks ELSE 0

\* cleanupCallback of call k: the renewal timers and maps are cleared, then
\* for each of the two promises, once and if it resolves, the management
\* client is disposed (which releases its two links), or the session is
\* ended, the listeners are removed and disposeReceiver releases its link. A
\* promise that rejects makes Promise.all reject, which the catch swallows.
CleanupCallback(st, k) ==
    LET s == st.setups[k]
        s1 == [s EXCEPT !.cleanupRuns = @ + 1,
                        !.rcvWaiters = IF s.rcv = "creating" THEN @ + 1 ELSE @,
                        !.mgmtWaiters = IF s.mgmt = "creating" THEN @ + 1 ELSE @,
                        !.rcvReleases = IF s.rcv = "ready" THEN @ + 1 ELSE @,
                        !.mgmtReleases = IF s.mgmt = "ready" THEN @ + 1 ELSE @]
        lc1 == IF s.rcv = "ready" THEN DisposeLinks(st.lc, 1) ELSE st.lc
        lc2 == IF s.mgmt = "ready" THEN DisposeLinks(lc1, 2) ELSE lc1
    IN  [st EXCEPT !.setups[k] = s1, !.lc = lc2]

DisposeInternalsNoCheck(st) ==
    [(IF st.ml.cleanupCallback = 0 THEN st
      ELSE CleanupCallback(st, st.ml.cleanupCallback))
        EXCEPT !.ml.isListening = FALSE]

\* MessageListenerImpl.disposeInternals
DisposeInternals(st) ==
    IF st.ml.isListening
    THEN [(IF st.ml.cleanupCallback = 0 THEN st
           ELSE CleanupCallback(st, st.ml.cleanupCallback))
             EXCEPT !.ml.isListening = FALSE]
    ELSE st

\* MessageListenerImpl.dispose: removeAllListeners, then disposeInternals.
Dispose(st) ==
    DisposeInternals([st EXCEPT !.ml.disposeCalls = @ + 1])

\* _connectReceiver up to the start of its async function: _getReceiver
\* leases one link and AmqpRequestClient.create two, both start creating, and
\* messageListener.initialize installs this call's cleanupCallback and sets
\* _isListening.
ConnectReceiver(st, k) ==
    [ml |-> [st.ml EXCEPT !.cleanupCallback = k, !.isListening = TRUE],
     setups |-> [st.setups EXCEPT ![k] =
                    [NoSetup EXCEPT !.rcv = "creating", !.mgmt = "creating",
                                    !.iife = "awaitReceiver"]],
     lc |-> st.lc + 1 + 2]

\* The catch of the async function: onLinkError, disposeInternals and the
\* reattach timer.
SetupCatch(st, k) ==
    DisposeInternals([st EXCEPT !.setups[k].iife = "failed",
                                !.setups[k].timer = TRUE])

\* The async function after await requestClientPromise.
AwaitClient(st, k) ==
    IF st.setups[k].mgmt = "ready"
    THEN [st EXCEPT !.setups[k].iife = "listening"]
    ELSE IF st.setups[k].mgmt = "failed" THEN SetupCatch(st, k) ELSE st

\* The async function runs as far as its promises let it.
SetupAdvance(st, k) ==
    IF st.setups[k].iife = "awaitReceiver"
    THEN IF st.setups[k].rcv = "ready"
         THEN AwaitClient([st EXCEPT !.setups[k].iife = "awaitClient"], k)
         ELSE IF st.setups[k].rcv = "failed" THEN SetupCatch(st, k) ELSE st
    ELSE IF st.setups[k].iife = "awaitClient" THEN AwaitClient(st, k) ELSE st

\* receiverPromise of call k settles: the async function goes on, and every
\* cleanupCallback run that waited for it tears the receiver down if it
\* resolved.
ReceiverSettled(st, k, ok) ==
    LET st1 == SetupAdvance([st EXCEPT !.setups[k].rcv =
                                IF ok THEN "ready" ELSE "failed"], k)
        n == st1.setups[k].rcvWaiters
    IN  [st1 EXCEPT !.setups[k].rcvWaiters = 0,
                    !.setups[k].rcvReleases = IF ok THEN @ + n ELSE @,
                    !.lc = IF ok /\ n > 0 THEN DisposeLinks(@, n) ELSE @]

\* requestClientPromise of call k settles.
ClientSettled(st, k, ok) ==
    LET st1 == SetupAdvance([st EXCEPT !.setups[k].mgmt =
                                IF ok THEN "ready" ELSE "failed"], k)
        n == st1.setups[k].mgmtWaiters
    IN  [st1 EXCEPT !.setups[k].mgmtWaiters = 0,
                    !.setups[k].mgmtReleases = IF ok THEN @ + n ELSE @,
                    !.lc = IF ok /\ n > 0 THEN DisposeLinks(@, 2 * n) ELSE @]

setupOther == <<rcvVars, link, cm, cmHist, rc, reqs, poolVars, renewVars, sendVars, batch, wire>>

SetTo(st) ==
    /\ messageListener' = st.ml
    /\ setups' = st.setups
    /\ linksCount' = st.lc

\* onMessage: the first call of _connectReceiver, on the new listener.
OnMessage ==
    /\ setups[1].iife = "none"
    /\ SetTo(ConnectReceiver(SetupState, 1))
    /\ UNCHANGED setupOther

\* The session and the receiver link of call k are created, or one of the
\* steps of _getReceiver rejects.
ReceiverPromiseSettles(k, ok) ==
    /\ setups[k].rcv = "creating"
    /\ SetTo(ReceiverSettled(SetupState, k, ok))
    /\ UNCHANGED setupOther

\* AmqpRequestClient.create of call k resolves or rejects.
RequestClientPromiseSettles(k, ok) ==
    /\ setups[k].mgmt = "creating"
    /\ SetTo(ClientSettled(SetupState, k, ok))
    /\ UNCHANGED setupOther

\* The reattach timer of call k runs after constants.reattachInterval:
\* _connectReceiver is called again with the same listener.
SetupReattach(k) ==
    /\ setups[k].timer
    /\ k + 1 \in Setups
    /\ SetTo(ConnectReceiver([SetupState EXCEPT !.setups[k].timer = FALSE], k + 1))
    /\ UNCHANGED setupOther

\* The user calls dispose() on the listener onMessage returned.
UserDispose ==
    /\ setups[1].iife # "none"
    /\ messageListener.disposeCalls < MaxDisposeCalls
    /\ SetTo(Dispose(SetupState))
    /\ UNCHANGED setupOther

\* A message arrives on the receiver link of call k, whose 'message' handler
\* is installed and whose session was not ended: the user handler is called.
SetupMessage(k) ==
    /\ setups[k].iife = "listening"
    /\ setups[k].rcvReleases = 0
    /\ setups[k].handled < MaxHandled
    /\ setups' = [setups EXCEPT ![k].handled = @ + 1]
    /\ UNCHANGED <<messageListener, linksCount, setupOther>>

NextSetup ==
    \/ OnMessage
    \/ \E k \in Setups, ok \in BOOLEAN : ReceiverPromiseSettles(k, ok)
    \/ \E k \in Setups, ok \in BOOLEAN : RequestClientPromiseSettles(k, ok)
    \/ \E k \in Setups : SetupReattach(k)
    \/ UserDispose
    \/ \E k \in Setups : SetupMessage(k)

InitSetup ==
    /\ Init
    /\ config = [receiveMode |-> "PeekLock", autoComplete |-> TRUE, maxConcurrentCalls |-> 1]

SpecSetup == InitSetup /\ [][NextSetup]_vars

\* ------------------------------------------------------- renew-lock bytes
\* The indices renewLock reads from uuid.parse(lockToken), in the order it
\* puts them into the Buffer given to uuid.unparse.
WireOrder == <<3, 2, 1, 0, 5, 4, 7, 6, 8, 9, 10, 11, 12, 13, 14, 15>>
TokenLength == 16

ReorderRotates(b) ==
    [i \in 1..TokenLength |->
        IF i <= 4 THEN b[(i % 4) + 1] ELSE b[WireOrder[i] + 1]]

\* The reordering of renewLock: byte i of the result is byte WireOrder[i] of
\* the token (the source counts from 0, sequences from 1).
Reorder(b) == [i \in 1..TokenLength |-> b[WireOrder[i] + 1]]

\* Lock tokens to try: every choice of the eight bytes that the reordering
\* moves, followed by eight bytes that differ from each other.
TokenInputs ==
    {[i \in 1..TokenLength |-> IF i <= 8 THEN h[i] ELSE 16 * i] :
        h \in [1..8 -> 0..MaxByte]}

\* renewLock(lockToken): the token's bytes are reordered for the request.
RenewLockReorder(t) ==
    /\ wire.applied = 0
    /\ wire' = [token |-> t, bytes |-> Reorder(t), applied |-> 1]
    /\ UNCHANGED <<rcvVars, link, cm, cmHist, rc, reqs, poolVars, renewVars, sendVars, batch, setupVars>>

\* The reordering applied to its own result.
ReorderAgain ==
    /\ wire.applied \in 1..(MaxReorders - 1)
    /\ wire' = [wire EXCEPT !.bytes = Reorder(@), !.applied = @ + 1]
    /\ UNCHANGED <<rcvVars, link, cm, cmHist, rc, reqs, poolVars, renewVars, sendVars, batch, setupVars>>

NextWire ==
    \/ \E t \in TokenInputs : RenewLockReorder(t)
    \/ ReorderAgain

InitWire ==
    /\ Init
    /\ config = [receiveMode |-> "PeekLock", autoComplete |-> TRUE, maxConcurrentCalls |-> 1]

SpecWire == InitWire /\ [][NextWire]_vars

\* SpecLive: the event loop runs every resolved promise and every expired
\* timer, the broker delivers while it holds a message and the link has
\* credit, and a user handler finishes. Failures and the settlement calls of
\* the user are not forced.
Fairness ==
    /\ WF_vars(ReceiverLinkCreated)
    /\ WF_vars(RequestClientReady)
    /\ WF_vars(ReattachTimer)
    /\ WF_vars(Deliver)
    /\ \A m \in Msgs : WF_vars(SettleTimer(m))
    /\ \A m \in Msgs : WF_vars(\E succeeded \in BOOLEAN : HandlerDone(m, succeeded))

SpecLive == Init /\ [][Next]_vars /\ Fairness

\* ---------------------------------------------------------------- claims
PeekLock == config.receiveMode = "PeekLock"
Delivered == {m \in Msgs : msgs[m].handler # "none"}
ActiveInHandler == {m \in Delivered : msgs[m].state = "Active"}
CreditCounted == {m \in Delivered : msgs[m].state \in {"Settling", "Settled", "SettleFailed"}}

\* C1: in a peek-lock streaming receiver started with maxConcurrentCalls = N,
\* the messages whose handler was invoked and that are still Active are at
\* most N, in every reachable state.
C1_ConcurrencyCap ==
    PeekLock => Cardinality(ActiveInHandler) <= config.maxConcurrentCalls

\* The cap is reached again after a credit was given back to the link.
C1_Witness ==
    /\ PeekLock
    /\ link.added > 0
    /\ Cardinality(ActiveInHandler) = config.maxConcurrentCalls

\* C2 as stated: every delivery to a streaming receiver whose lifecycle is
\* over (handler finished, message Settled or SettleFailed) has had
\* creditManager.settleMessage called exactly once on its token.
C2_Original ==
    \A m \in Delivered :
        (msgs[m].handler \in {"ok", "failed"} /\ msgs[m].state \in {"Settled", "SettleFailed"})
            => msgs[m].settleCalls = 1

\* C2 as amended: settleMessage is called at most once per delivery; for a
\* peek-lock delivery it has been called exactly once when the disposition
\* has been executed (Settled or SettleFailed), immediately or after the
\* delay, and not before; for a ReceiveAndDelete delivery it is never called.
C2_SettleOnce ==
    \A m \in Delivered :
        /\ msgs[m].settleCalls <= 1
        /\ PeekLock => (msgs[m].settleCalls = 1 <=> msgs[m].state \in {"Settled", "SettleFailed"})
        /\ ~PeekLock => msgs[m].settleCalls = 0

\* A delayed settlement is pending on one message (not yet called) while
\* another message has been settled with one call.
C2_Witness ==
    /\ PeekLock
    /\ \E m, k \in Delivered :
        /\ msgs[m].state = "Settling" /\ msgs[m].settleCalls = 0
        /\ msgs[k].state = "Settled" /\ msgs[k].settleCalls = 1

CMSeen == cmHist.scheduled \cup cmHist.settled

\* C3 as stated: over any sequence of scheduleMessageSettle and settleMessage
\* calls on one CreditManager in which each token is settled at most once,
\* the credits counted (added to the link plus still in the counter) equal
\* the number of distinct tokens seen.
C3_Original ==
    link.added + cm.additionalCredits = Cardinality(CMSeen)

\* C3 as amended: the same, provided no token is passed to
\* scheduleMessageSettle after it was settled; then also the pending set
\* holds exactly the tokens scheduled and not yet settled.
C3_OneCreditPerToken ==
    cmHist.late = {} =>
        /\ link.added + cm.additionalCredits = Cardinality(CMSeen)
        /\ cm.pendingSettles = cmHist.scheduled \ cmHist.settled

\* A token scheduled and then settled, another one settled directly, and
\* credits already given to the link.
C3_Witness ==
    /\ cmHist.late = {}
    /\ cmHist.scheduled \cap cmHist.settled # {}
    /\ cmHist.settled \ cmHist.scheduled # {}
    /\ link.added > 0

\* C4 as stated: every credit counted for a delivered peek-lock message is
\* eventually given to the link through addCredits (here even granted that
\* the link never detaches).
C4_Original ==
    [](link.state # "detached")
        => ((PeekLock /\ cm.additionalCredits > 0) ~> (cm.additionalCredits = 0))

\* C4 as amended: each delivered peek-lock message has exactly one credit
\* counted from the moment it leaves Active; every counted credit is either
\* already given to the link through addCredits or still in the counter; and
\* no credit stays in the counter while the link is attached with linkCredit
\* below the threshold.
C4_CreditAccounting ==
    PeekLock =>
        /\ \A m \in Delivered :
              msgs[m].credits = (IF m \in CreditCounted THEN 1 ELSE 0)
        /\ link.added + cm.additionalCredits = Cardinality(CreditCounted)
        /\ (cm.linkSet /\ link.state = "attached" /\ link.linkCredit < cm.threshold)
              => cm.additionalCredits = 0

\* A credit waits in the counter on an attached link (at the threshold) after
\* another one has been given back.
C4_Witness ==
    /\ PeekLock
    /\ link.state = "attached"
    /\ link.added > 0
    /\ cm.additionalCredits > 0

Fired(q) == q.fired.response + q.fired.timeout + q.fired.terminator
InNoMap(q) == ~q.inPending /\ ~q.inTimeouts /\ ~q.inTerminations /\ ~q.timerArmed
InAllMaps(q) == q.inPending /\ q.inTimeouts /\ q.inTerminations /\ q.timerArmed

\* C5: for every management request sent, at most one of the response,
\* timeout and terminator callbacks ever runs; until one has run the request
\* has its entry in all three maps and its timer armed (so one will run), and
\* from then on it has no entry in any of the maps and its inner promise is
\* settled by that callback.
C5_OneCompletionPath ==
    \A r \in Reqs :
        reqs[r].status = "sent" =>
            /\ Fired(reqs[r]) <= 1
            /\ Fired(reqs[r]) = 0 => (InAllMaps(reqs[r]) /\ reqs[r].result = "pending")
            /\ Fired(reqs[r]) = 1 => InNoMap(reqs[r])
            /\ reqs[r].fired.response = 1 => reqs[r].result \in {"resolved", "RequestFailure"}
            /\ reqs[r].fired.timeout = 1 => reqs[r].result = "RequestTimeout"
            /\ reqs[r].fired.terminator = 1 => reqs[r].result = "RequestTerminated"

\* One request completed by its response and another one by its timeout.
C5_Witness ==
    \E r, q \in Reqs :
        /\ reqs[r].fired.response = 1 /\ InNoMap(reqs[r])
        /\ reqs[q].fired.timeout = 1 /\ InNoMap(reqs[q])

ReceiverDetachHeard == rc.receiver = "attached" /\ rc'.receiver = "detached"

\* C6: when the response receiver detaches, every request whose promise is
\* pending at that moment is rejected with Internal.RequestTerminated and no
\* request has an entry in any map afterwards; a request rejected this way
\* stays rejected, and a response arriving later runs no handler for it.
C6_DetachTerminates ==
    [][/\ ReceiverDetachHeard =>
            \A r \in Reqs :
                /\ InNoMap(reqs'[r])
                /\ (reqs[r].status = "sent" /\ reqs[r].outer = "pending")
                      => (reqs'[r].outer = "RequestTerminated" /\ reqs'[r].fired.terminator = 1)
       /\ \A r \in Reqs :
            reqs[r].outer = "RequestTerminated"
                => /\ reqs'[r].outer = "RequestTerminated"
                   /\ reqs'[r].result = reqs[r].result
                   /\ reqs'[r].fired = reqs[r].fired]_vars

\* A request terminated by a detach whose response arrived after the receiver
\* attached again and was reported as orphaned.
C6_Witness ==
    \E r \in Reqs :
        /\ ~rc.disposed
        /\ reqs[r].outer = "RequestTerminated"
        /\ reqs[r].response = "delivered"
        /\ reqs[r].orphans > 0

C9_NoAbandonOnFailure ==
    \A m \in Delivered :
        (config.autoComplete /\ msgs[m].handler = "failed") => msgs[m].rcvAbandon = 0

DetachHeard ==
    phase = "listening" /\ link.state = "attached" /\ link'.state = "detached"

SetupFails == phase \in {"connecting", "linkCreated"} /\ phase' = "backoff"

C12_RefcountWithinBudget ==
    \A c \in Lessees : clientStates[c].linksCount <= HandleMax

\* C13: a pooled connection whose refcount is above 0 has no pending
\* idle-cleanup timer.
C13_NoTimerWhileLeased ==
    \A c \in Lessees :
        (InPool(clientsArr, c) /\ clientStates[c].linksCount > 0) => clientStates[c].timers = 0

\* C14: over any interleaving of lease, release and timer expiry, idle
\* cleanup disconnects a connection at most once; a connection leaves the
\* pool only in a timer expiry that finds its refcount 0, before it is
\* disconnected; it never comes back, and no lease returns a connection that
\* is not in the pool.
C14_CleanupOnce ==
    /\ [](\A c \in Lessees :
            /\ clientStates[c].disconnects <= 1
            /\ (clientStates[c].cleaning \/ clientStates[c].disconnects > 0)
                  => ~InPool(clientsArr, c))
    /\ [][\A c \in Lessees :
            /\ (InPool(clientsArr, c) /\ ~InPool(clientsArr', c))
                  => /\ clientStates[c].linksCount = 0
                     /\ clientStates[c].timers > 0
                     /\ clientStates'[c].timers = clientStates[c].timers - 1
                     /\ clientStates'[c].cleaning
                     /\ clientStates'[c].disconnects = 0
            /\ (clientStates[c].created /\ ~InPool(clientsArr, c)) => ~InPool(clientsArr', c)
            /\ \A l \in Lessees :
                  (leases[l].state = "none" /\ leases'[l].state = "held" /\ leases'[l].client = c)
                      => (InPool(clientsArr', c) /\ ~clientStates[c].cleaning
                            /\ clientStates[c].disconnects = 0)]_vars

\* A connection was cleaned up and disconnected, and a lease taken afterwards
\* is on another connection.
C14_Witness ==
    \E c \in Lessees, l \in Lessees :
        /\ clientStates[c].disconnects = 1
        /\ leases[l].state = "held"
        /\ leases[l].client # c
        /\ InPool(clientsArr, leases[l].client)

C16_SecondReleaseNoOp ==
    [][\A l \in Lessees :
          (leases[l].state = "released" /\ leases'[l].state = "releasedAgain")
              => (clientStates' = clientStates /\ clientsArr' = clientsArr)]_vars

\* C17: complete, abandon and deadLetter on a message that is not Active throw
\* Message.SettleFailure, issue no disposition, leave processingState as it
\* is and change nothing in the credit manager or on the link. A call of the
\* user throws to the user; a call made by the receiver after the handler is
\* reported as receiverError.
SettleKinds == {"accept", "modify", "reject"}

C17_NonActiveSettleFails ==
    /\ [](\A m \in Delivered, kind \in SettleKinds, delayed \in BOOLEAN :
            msgs[m].state # "Active" =>
                LET r == ScheduleSettle(msgs[m], cm, link, kind, delayed, m)
                IN  r.threw /\ r.msg = msgs[m] /\ r.cm = cm /\ r.link = link)
    /\ [][\A m \in Delivered :
            /\ msgs[m].state \in {"Settled", "SettleFailed"}
                  => /\ msgs'[m].state = msgs[m].state
                     /\ msgs'[m].dispo = msgs[m].dispo
                     /\ msgs'[m].credits = msgs[m].credits
                     /\ msgs'[m].settleCalls = msgs[m].settleCalls
            /\ (msgs[m].state = "Settling" /\ msgs'[m].timer = msgs[m].timer)
                  => /\ msgs'[m].state = "Settling"
                     /\ msgs'[m].dispo = msgs[m].dispo
                     /\ msgs'[m].credits = msgs[m].credits
                     /\ msgs'[m].settleCalls = msgs[m].settleCalls
            /\ (/\ msgs[m].state # "Active"
                /\ msgs'[m].rcvAbandon + msgs'[m].rcvComplete
                      > msgs[m].rcvAbandon + msgs[m].rcvComplete)
                  => /\ msgs'[m].state = msgs[m].state
                     /\ msgs'[m].timer = msgs[m].timer
                     /\ msgs'[m].receiverErrors = msgs[m].receiverErrors + 1
                     /\ cm' = cm
                     /\ link' = link]_vars

\* The receiver called complete() on a message the user had scheduled for a
\* delayed settlement, and the message is still Settling.
C17_Witness ==
    \E m \in Delivered :
        /\ msgs[m].state = "Settling"
        /\ msgs[m].doneState = "Settling"
        /\ msgs[m].rcvComplete = 1
        /\ msgs[m].receiverErrors = 1
        /\ msgs[m].dispo = << >>

\* C18 as stated: a delayed settlement of an Active message makes it Settling
\* and counts its credit in the same step; it stays Settling until its timer
\* fires; then the disposition is issued, the message is Settled, it leaves
\* the pending settlements and no second credit is counted.
DelayedSettleStarts(m) == msgs[m].state = "Active" /\ msgs'[m].state = "Settling"
DelayElapses(m) == msgs[m].state = "Settling" /\ msgs'[m].state # "Settling"

SettlingIsPending ==
    \A m \in Delivered :
        msgs[m].state = "Settling" =>
            /\ msgs[m].timer # "none"
            /\ m \in cm.pendingSettles
            /\ msgs[m].credits = 1
            /\ msgs[m].dispo = << >>

CreditCountedAtOnce(m) ==
    DelayedSettleStarts(m) =>
        /\ msgs[m].credits = 0
        /\ msgs'[m].credits = 1
        /\ cm'.pendingSettles = cm.pendingSettles \cup {m}
        /\ Cardinality(cm'.pendingSettles) = Cardinality(cm.pendingSettles) + 1
        /\ cm'.additionalCredits + link'.added = cm.additionalCredits + link.added + 1
        /\ msgs'[m].dispo = << >>

NoSecondCredit(m) ==
    DelayElapses(m) =>
        /\ msgs'[m].timer = "none"
        /\ cm'.pendingSettles = cm.pendingSettles \ {m}
        /\ Cardinality(cm'.pendingSettles) = Cardinality(cm.pendingSettles) - 1
        /\ msgs'[m].credits = 1
        /\ cm'.additionalCredits = cm.additionalCredits
        /\ link' = link

RenewalWindow ==
    [][rn'.pending \ rn.pending # {} =>
          /\ rn'.pending = rn.pending \cup {now + TimeUntilRenewal}
          /\ Later(rn'.deadline, now + TimeUntilRenewal)]_vars

DeadlineFixed ==
    (rn.hasTimeout \/ rn.calls # << >>)
        => rn.deadline = DeadlineFrom(rn.first, rn.autoRenewTimeout)

CallsBeforeDeadline ==
    \A i \in 1..Len(rn.calls) : Later(rn.deadline, rn.calls[i])

NoRenewalWhenZero ==
    rn.autoRenewTimeout = 0 => (rn.pending = {} /\ rn.calls = << >> /\ ~rn.hasTimer)

ScheduleEnded == rn.state # "None" /\ rn.pending = {} /\ ~rn.inflight

C20_RenewsUntilSettled ==
    (rn.autoRenewTimeout = Infinity /\ rn.state \in {"Active", "Settling"})
        => \/ rn.inflight
           \/ \E due \in rn.pending : due >= now /\ due <= now + TimeUntilRenewal

\* C21: in every reachable state at most one renewal timer of the lock token
\* is armed, and none while its renew-lock request is in flight.
C21_OneRenewalTimer ==
    /\ Cardinality(rn.pending) <= 1
    /\ rn.inflight => rn.pending = {}

\* A second timer was armed after a renewal, for a message that is being
\* settled with a delay.
C21_Witness ==
    /\ Len(rn.ends) >= 1
    /\ rn.state = "Settling"
    /\ Cardinality(rn.pending) = 1
    /\ rn.hasTimer

\* C22 as stated: a Settled message has no entry in renewalTimers and none
\* in renewalTimeouts.
C22_Original ==
    rn.state = "Settled" => (~rn.hasTimer /\ ~rn.hasTimeout)

\* C22: no entry is made and no renew-lock request is sent for a Settled
\* message; the entries it had when it was settled are deleted when its
\* armed timer fires or its request in flight is answered, and they outlive
\* that only after a renewLock that failed.
C22_SettledEntriesCleared ==
    /\ []((rn.state = "Settled" /\ (rn.hasTimer \/ rn.hasTimeout))
            => (rn.pending # {} \/ rn.inflight \/ rn.errors > 0))
    /\ [][rn.state = "Settled" =>
            /\ rn'.hasTimer => rn.hasTimer
            /\ rn'.hasTimeout => rn.hasTimeout
            /\ rn'.calls = rn.calls
            /\ rn'.pending \subseteq rn.pending
            /\ (rn'.pending # rn.pending \/ (rn.inflight /\ ~rn'.inflight /\ rn'.errors = rn.errors))
                  => (~rn'.hasTimer /\ ~rn'.hasTimeout)]_vars

\* The timer of a message that was settled while it was armed has fired and
\* deleted the entries.
C22_Witness ==
    /\ rn.state = "Settled"
    /\ rn.first + TimeUntilRenewal <= now
    /\ rn.deadline = DeadlineFrom(rn.first, rn.autoRenewTimeout)
    /\ rn.autoRenewTimeout # 0
    /\ rn.calls = << >>
    /\ ~rn.hasTimer
    /\ ~rn.hasTimeout

\* C23: a send whose timer fires while the link's send is still pending is
\* rejected with Send.Timeout, and a racing send always has its timer armed
\* and able to fire; Send.Timeout has no other cause; the promise of every
\* send call is settled at most once and, once settled, neither its outcome
\* nor its count of settlements changes, whatever the link's send does later.
C23_SendTimeout ==
    /\ [](\A i \in SendCalls :
            /\ sends[i].settles <= 1
            /\ sends[i].state = "settled" <=> sends[i].settles = 1
            /\ sends[i].state = "racing" =>
                  (sends[i].timer /\ sends[i].under = "pending" /\ ENABLED SendTimerFires(i))
            /\ sends[i].state = "awaitLink" =>
                  (sender.created = "creating" \/ ENABLED SendProceeds(i)))
    /\ [][\A i \in SendCalls :
            /\ sends[i].state = "settled" =>
                  /\ sends'[i].state = "settled"
                  /\ sends'[i].outcome = sends[i].outcome
                  /\ sends'[i].settles = sends[i].settles
            /\ (sends[i].timer /\ ~sends'[i].timer /\ sends'[i].under = "pending")
                  => (sends'[i].state = "settled" /\ sends'[i].outcome = "Send.Timeout")
            /\ (sends'[i].outcome = "Send.Timeout" /\ sends[i].outcome # "Send.Timeout")
                  => (sends[i].state = "racing" /\ sends[i].timer
                        /\ sends[i].under = "pending" /\ sends'[i].under = "pending")]_vars

\* A send timed out and the link's send completed afterwards, as rejected.
C23_Witness ==
    \E i \in SendCalls :
        /\ sends[i].outcome = "Send.Timeout"
        /\ sends[i].under = "done"
        /\ sends[i].descriptor = AMQP_REJECTED_DESCRIPTOR
        /\ sends[i].settles = 1

\* C24: when the link's send resolves while the call is still racing, the
\* call is rejected with Send.Rejected if the delivery state's descriptor is
\* 0x25 and resolved for every other descriptor.
C24_RejectedDisposition ==
    [][\A i \in SendCalls :
          (sends[i].state = "racing" /\ sends'[i].under = "done") =>
              /\ sends'[i].state = "settled"
              /\ sends'[i].outcome = IF sends'[i].descriptor = AMQP_REJECTED_DESCRIPTOR
                                     THEN "Send.Rejected" ELSE "resolved"]_vars

\* One send was rejected by the broker and another one, released by the
\* broker, resolved.
C24_Witness ==
    \E i, k \in SendCalls :
        /\ sends[i].outcome = "Send.Rejected"
        /\ sends[i].descriptor = AMQP_REJECTED_DESCRIPTOR
        /\ sends[k].outcome = "resolved"
        /\ sends[k].descriptor = AMQP_REJECTED_DESCRIPTOR + 1

\* C25: once dispose() was called disposed stays true, canSend is false, a
\* send called afterwards fails with Send.Disposed and never reaches the
\* link, a further dispose call changes nothing, and when dispose() has
\* finished the one lease of the sender has been released exactly once.
C25_DisposeOnce ==
    /\ [](sender.disposed => ~CanSend(sender))
    /\ [](\A i \in SendCalls :
            sends[i].afterDispose =>
                (sends[i].outcome = "Send.Disposed" /\ sends[i].under = "none"))
    /\ [](sender.disposing = "done" => (sender.leases = 1 /\ sender.releases = 1))
    /\ [](sender.releases <= 1 /\ sender.sessionEnds <= 1)
    /\ [][/\ sender.disposed => sender'.disposed
          /\ (sender.disposed /\ sender'.disposeCalls # sender.disposeCalls)
                => sender' = [sender EXCEPT !.disposeCalls = @ + 1]
          /\ sender.disposed => sender'.linkSends <= sender.linkSends
                                   + Cardinality({i \in SendCalls : sends[i].state = "awaitLink"})]_vars

\* C26: the promise of receiveBatch(n, timeoutMs) is settled at most once and
\* never changes afterwards. On a link that was created it is resolved with
\* the n messages in the step in which the n-th arrives, or resolved with
\* the messages collected so far when the timer fires first, or rejected
\* when the link detaches first; in each of these cases addCredits(n) was
\* called exactly once and the session was ended and the lease released
\* exactly once, with no timer and no listener left.
BatchOutcomes == {"batchFull", "batchTimeout", "detached"}

C26_BatchSettlesOnce ==
    /\ [](/\ batch.settles <= 1
          /\ batch.state = "settled" <=> batch.settles = 1
          /\ batch.state = "collecting" =>
                /\ batch.timer /\ batch.listeners /\ batch.due >= now
                /\ batch.addCredits = <<batch.messageCount>>
                /\ batch.sessionEnds = 0 /\ batch.releases = 0
                /\ Len(batch.messages) < batch.messageCount \/ batch.messageCount = 0
          /\ batch.outcome \in BatchOutcomes =>
                /\ batch.addCredits = <<batch.messageCount>>
                /\ batch.sessionEnds = 1 /\ batch.releases = 1 /\ batch.leases = 1
                /\ ~batch.timer /\ ~batch.listeners
          /\ batch.outcome = "batchFull" =>
                (batch.result = batch.messages /\ Len(batch.result) = batch.messageCount)
          /\ batch.outcome = "batchTimeout" =>
                /\ batch.result = batch.messages
                /\ Len(batch.result) < batch.messageCount \/ batch.messageCount = 0
                /\ batch.due = now)
    /\ [][/\ batch.state = "settled" => batch' = batch
          /\ (Len(batch'.messages) > Len(batch.messages)
                /\ Len(batch'.messages) = batch.messageCount)
                => (batch'.state = "settled" /\ batch'.outcome = "batchFull")
          /\ (batch.timer /\ ~batch'.timer /\ batch'.outcome # "batchTimeout")
                => batch.due >= now]_vars

\* A batch of two resolved by its timer with the one message that had come.
C26_Witness ==
    /\ batch.outcome = "batchTimeout"
    /\ batch.messageCount = MaxBatch
    /\ Len(batch.result) = MaxBatch - 1
    /\ batch.addCredits = <<MaxBatch>>
    /\ batch.releases = 1

\* C27: in a streaming receiver started with ReceiveAndDelete the credit
\* manager's policy is the base policy, and every message the handler was
\* given is Settled from the moment it is built and stays so, with no
\* disposition issued and no settlement timer armed for it.
ReceiveAndDelete == config.receiveMode = "ReceiveAndDelete"

C27_ReceiveAndDelete ==
    /\ [](ReceiveAndDelete =>
            /\ cm.mode = "ReceiveAndDelete"
            /\ Policy(cm) = BasePolicy
            /\ \A m \in Delivered :
                  /\ IsSettled(msgs[m])
                  /\ msgs[m].dispo = << >>
                  /\ msgs[m].timer = "none"
                  /\ msgs[m].settleCalls = 0)
    /\ [][ReceiveAndDelete =>
            \A m \in Msgs :
                (msgs[m].handler = "none" /\ msgs'[m].handler # "none")
                    => (msgs'[m].handler = "running" /\ IsSettled(msgs'[m]))]_vars

\* In ReceiveAndDelete a handler failed and the receiver's abandon() was
\* refused without a disposition.
C27_Witness ==
    /\ ReceiveAndDelete
    /\ \E m \in Delivered :
          /\ msgs[m].handler = "failed"
          /\ msgs[m].rcvAbandon = 1
          /\ msgs[m].receiverErrors = 1
          /\ msgs[m].dispo = << >>
          /\ IsSettled(msgs[m])

RequestUnsettled(r) == reqs[r].status = "sent" /\ reqs[r].outer = "pending"

\* C28: every management request that passed the pre-check eventually
\* settles: while its promise is pending its timer is armed, and when the
\* timer runs before a response or a detach has settled the request, the
\* request is rejected with Internal.RequestTimeout.
C28_RequestSettles ==
    /\ [](\A r \in Reqs : RequestUnsettled(r) => reqs[r].timerArmed)
    /\ [][\A r \in Reqs :
            (RequestUnsettled(r) /\ reqs'[r].fired.timeout > reqs[r].fired.timeout)
                => reqs'[r].outer = "RequestTimeout"]_vars
    /\ \A r \in Reqs : (reqs[r].status = "sent") ~> (reqs[r].outer # "pending")

\* A request that was sent, got no response while the response receiver
\* stayed attached, and was rejected by its timer.
C28_Witness ==
    \E r \in Reqs :
        /\ reqs[r].outer = "RequestTimeout"
        /\ reqs[r].fired.timeout = 1
        /\ reqs[r].response = "none"
        /\ reqs[r].sendAck = "ok"
        /\ rc.isListening /\ rc.listeners = 1

ReattachHeard == ~rc.disposed /\ rc.receiver = "detached" /\ rc'.receiver = "attached"
Answered(r) == reqs[r].response = "none" /\ reqs'[r].response = "delivered"

\* C29: on the response receiver, an attached event that follows a detached
\* event installs the response listener exactly once, an attached event with
\* no detach since the last install installs nothing, and a request issued
\* after the reattach is settled by its response.
C29_ReattachListensOnce ==
    /\ [](~rc.disposed =>
            /\ (rc.isListening <=> rc.receiver = "attached")
            /\ (rc.isListening => OnReceiverAttached(rc) = rc)
            /\ (~rc.isListening =>
                  OnReceiverAttached(rc) = [rc EXCEPT !.listeners = @ + 1,
                                                      !.isListening = TRUE]))
    /\ [][/\ (ReattachHeard => rc'.listeners = rc.listeners + 1)
           /\ ((~ReattachHeard /\ ~rc'.disposed) => rc'.listeners = rc.listeners)
           /\ \A r \in Reqs :
                (Answered(r) /\ RequestUnsettled(r) /\ ~rc.disposed) =>
                       /\ reqs'[r].outer \in {"resolved", "RequestFailure"}
                       /\ reqs'[r].fired.response = 1]_vars

\* The receiver detached and attached again, and a request issued after
\* that was resolved by its response.
C29_Witness ==
    \E r, q \in Reqs :
        /\ ~rc.disposed /\ rc.isListening /\ rc.listeners = 2
        /\ reqs[q].outer = "RequestTerminated"
        /\ reqs[r].outer = "resolved" /\ reqs[r].orphans > 0

\* The messages whose user handler is running.
InHandler == {m \in Msgs : msgs[m].handler = "running"}

\* C30 as stated: no complete, abandon or deadLetter call made by the handler
\* throws into the handler.
C30_Original ==
    \A m \in InHandler, kind \in SettleKinds, delayed \in BOOLEAN :
        ~ScheduleSettle(msgs[m], cm, link, kind, delayed, m).threw

\* C30: a failure of the disposition itself (the link is not attached when
\* settleWrap runs, at once or at the end of a delay) is never thrown: the
\* call returns normally, the message becomes SettleFailed, one settleError
\* is emitted on it and forwarded as one receiverError. A complete, abandon
\* or deadLetter call of the handler throws into the handler exactly when the
\* message is not Active, and then nothing is emitted.
C30_SettleErrorsEmitted ==
    /\ [](\A m \in InHandler, kind \in SettleKinds, delayed \in BOOLEAN :
            LET r == ScheduleSettle(msgs[m], cm, link, kind, delayed, m)
                fails == ~delayed /\ link.state # "attached"
            IN  /\ (r.threw <=> msgs[m].state # "Active")
                /\ (r.threw \/ ~fails) =>
                       /\ r.msg.settleErrors = msgs[m].settleErrors
                       /\ r.msg.receiverErrors = msgs[m].receiverErrors
                /\ (~r.threw /\ fails) =>
                       /\ r.msg.state = "SettleFailed"
                       /\ r.msg.settleErrors = msgs[m].settleErrors + 1
                       /\ r.msg.receiverErrors = msgs[m].receiverErrors + 1)
    /\ [][\A m \in Msgs :
            /\ (msgs[m].timer # "none" /\ msgs'[m].timer = "none"
                    /\ link.state # "attached") =>
                   msgs'[m].settleErrors = msgs[m].settleErrors + 1
            /\ msgs'[m].settleErrors # msgs[m].settleErrors =>
                   /\ msgs'[m].state = "SettleFailed"
                   /\ msgs'[m].settleErrors = msgs[m].settleErrors + 1
                   /\ msgs'[m].receiverErrors = msgs[m].receiverErrors + 1]_vars

\* A handler's settle call failed on a detached link and returned to the
\* running handler: the error was emitted and forwarded.
C30_Witness ==
    \E m \in InHandler :
        /\ msgs[m].state = "SettleFailed"
        /\ msgs[m].userCalls = 1
        /\ msgs[m].settleErrors = 1
        /\ msgs[m].receiverErrors = 1

\* The condition under which refreshCredits gives credits to the link.
RefreshDue(c, l) ==
    l.state = "attached" /\ c.additionalCredits > 0 /\ l.linkCredit < c.threshold

\* C32: with a link bound, refreshCredits calls link.addCredits(k), k the
\* accumulated counter, and resets the counter to 0 exactly when the link is
\* attached, the counter is above 0 and linkCredit is below the threshold; in
\* every other case it changes neither the link nor the counter, so no step
\* adds credit on a detached link or on one at or above the threshold, and
\* the credits counted there stay in the counter.
C32_RefreshCredits ==
    /\ [](cm.linkSet =>
            LET r == RefreshCredits(cm, link)
            IN  /\ RefreshDue(cm, link) =>
                      /\ r.link.added = link.added + cm.additionalCredits
                      /\ r.link.linkCredit = link.linkCredit + cm.additionalCredits
                      /\ r.cm.additionalCredits = 0
                /\ ~RefreshDue(cm, link) => (r.cm = cm /\ r.link = link))
    /\ [][(cm.linkSet /\ (link.state # "attached" \/ link.linkCredit >= cm.threshold)) =>
              /\ link'.added = link.added
              /\ cm'.additionalCredits >= cm.additionalCredits]_vars

\* Credits were given to the link before, and a credit counted since then
\* waits in the counter because the link is at or above the threshold.
C32_Witness ==
    /\ cm.linkSet
    /\ link.state = "attached"
    /\ link.linkCredit >= cm.threshold
    /\ link.added > 0
    /\ cm.additionalCredits > 0

\* The messages on which settleWrap can still run: at once for an Active
\* one, at the end of the delay for a Settling one.
Settleable == {m \in Delivered : msgs[m].state \in {"Active", "Settling"}}

\* C34: when settleWrap runs, at once or at the end of a delay, while the
\* receiver link is not attached, no accept, modify or reject is issued, the
\* message becomes SettleFailed, one settleError is emitted on it, and
\* creditManager.settleMessage is still called for its token.
C34_DetachedSettle ==
    /\ [](\A m \in Settleable, kind \in SettleKinds :
            link.state # "attached" =>
                LET r == SettleWrap(msgs[m], cm, link, kind, m)
                IN  /\ ~r.threw
                    /\ r.msg.dispo = msgs[m].dispo
                    /\ r.msg.state = "SettleFailed"
                    /\ r.msg.settleErrors = msgs[m].settleErrors + 1
                    /\ r.msg.settleCalls = msgs[m].settleCalls + 1
                    /\ r.cm = SettleMessage(cm, link, m).cm)
    /\ [][\A m \in Msgs :
            /\ (msgs[m].timer # "none" /\ msgs'[m].timer = "none"
                    /\ link.state # "attached") =>
                   msgs'[m].state = "SettleFailed"
            /\ (msgs[m].state # "SettleFailed" /\ msgs'[m].state = "SettleFailed") =>
                   /\ link.state # "attached"
                   /\ msgs'[m].dispo = msgs[m].dispo
                   /\ msgs'[m].settleErrors = msgs[m].settleErrors + 1
                   /\ msgs'[m].settleCalls = msgs[m].settleCalls + 1
                   /\ m \notin cm'.pendingSettles]_vars

\* A settlement scheduled with a delay was executed after the link had
\* detached: nothing was issued and the credit manager was told.
C34_Witness ==
    \E m \in Delivered :
        /\ msgs[m].state = "SettleFailed"
        /\ msgs[m].dispo = << >>
        /\ msgs[m].settleCalls = 1
        /\ msgs[m].settleErrors = 1
        /\ msgs[m].credits = 1
        /\ link.state # "attached"

\* C33: a response settles exactly the request whose messageId is its
\* correlationId, whatever other requests are in flight, in whatever order
\* the responses arrive and whether or not the request's send was
\* acknowledged; a response whose correlationId has no pending request emits
\* requestClientError(OrphanedResponse) and settles no request.
C33_MatchedByCorrelationId ==
    [][\A r \in Reqs :
        (Answered(r) /\ ~rc.disposed) =>
            /\ \A q \in Reqs \ {r} : reqs'[q] = reqs[q]
            /\ reqs[r].inPending =>
                  /\ reqs'[r].fired.response = 1
                  /\ reqs'[r].result \in {"resolved", "RequestFailure"}
                  /\ reqs[r].outer = "pending" => reqs'[r].outer = reqs'[r].result
                  /\ InNoMap(reqs'[r])
            /\ ~reqs[r].inPending =>
                  /\ reqs'[r].orphans > reqs[r].orphans
                  /\ reqs'[r].result = reqs[r].result
                  /\ reqs'[r].outer = reqs[r].outer
                  /\ reqs'[r].fired = reqs[r].fired]_vars

\* Of two requests in flight, the higher-numbered one was resolved by its
\* response before its own send was acknowledged, while the other one is
\* still waiting for its response.
C33_Witness ==
    \E r, q \in Reqs :
        /\ q < r
        /\ reqs[r].outer = "resolved" /\ reqs[r].sendAck = "pending"
        /\ reqs[q].status = "sent" /\ reqs[q].inPending /\ reqs[q].response = "none"

\* C38: over any sequence of detach and attach cycles of the response
\* receiver, a response whose correlationId has a pending request settles
\* that request and no requestClientError(OrphanedResponse) is emitted for it.
C38_NoOrphanOnMatch ==
    [][\A r \in Reqs :
        (Answered(r) /\ reqs[r].inPending /\ ~rc.disposed) =>
            /\ reqs'[r].result \in {"resolved", "RequestFailure"}
            /\ reqs'[r].orphans = reqs[r].orphans]_vars

\* C39: whenever the promise returned for a management request has settled,
\* by whatever path, the request has no entry in _pendingRequests,
\* _requestTimeouts or _requestTerminations and its timer is not armed.
C39_SettledLeavesNothing ==
    \A r \in Reqs : reqs[r].outer # "pending" => InNoMap(reqs[r])

\* C40: with autoComplete on, when the handler has scheduled a delayed
\* settlement of its message (the message is Settling) and then returns
\* successfully, the receiver makes no settlement attempt of its own on the
\* message and emits no receiverError for it.
C40_NoAttemptOnSettling ==
    [][\A m \in Msgs :
        (/\ config.autoComplete
         /\ msgs[m].handler = "running" /\ msgs'[m].handler = "ok"
         /\ msgs[m].state = "Settling") =>
            /\ msgs'[m].rcvComplete = msgs[m].rcvComplete
            /\ msgs'[m].rcvAbandon = msgs[m].rcvAbandon
            /\ msgs'[m].receiverErrors = msgs[m].receiverErrors]_vars

\* The bytes of the token that the reordering moves to another place.
Moved(t) == {i \in 1..TokenLength : t[WireOrder[i] + 1] # t[i]}

\* C35 as stated: the reordering is not its own inverse; once it has been
\* applied twice, there is a lock token that the two applications do not
\* give back.
C35_Original ==
    wire.applied = 2 => \E t \in TokenInputs : Reorder(Reorder(t)) # t

\* C35: wire byte i is canonical byte p[i] with p = [3,2,1,0,5,4,7,6,8..15];
\* the reordered token differs from the canonical one whenever one of the
\* swapped pairs holds two different bytes, and the reordering is its own
\* inverse: applied twice it gives back the original token.
C35_ReorderIsInvolution ==
    /\ wire.applied = 1 =>
          /\ \A i \in 1..TokenLength : wire.bytes[i] = wire.token[WireOrder[i] + 1]
          /\ \A i \in 9..TokenLength : wire.bytes[i] = wire.token[i]
          /\ (Moved(wire.token) # {} <=> wire.bytes # wire.token)
    /\ wire.applied = 2 => wire.bytes = wire.token

\* A token that the reordering changes, reordered twice.
C35_Witness ==
    /\ wire.applied = 2
    /\ Moved(wire.token) # {}
    /\ wire.bytes = wire.token

DisposeCalled == messageListener'.disposeCalls > messageListener.disposeCalls

\* C31: dispose() may be called any number of times: the cleanupCallback that
\* a call of initialize installed runs at most once, isListening is false
\* after each dispose call, and a dispose call on a listener that is not
\* listening changes nothing else.
C31_DisposeIdempotent ==
    /\ [](\A k \in Setups : setups[k].cleanupRuns <= 1)
    /\ [][DisposeCalled =>
            /\ ~messageListener'.isListening
            /\ messageListener.isListening =>
                  /\ messageListener.cleanupCallback \in Setups
                  /\ setups'[messageListener.cleanupCallback].cleanupRuns = 1
            /\ ~messageListener.isListening =>
                  /\ setups' = setups
                  /\ linksCount' = linksCount
                  /\ messageListener' =
                        [messageListener EXCEPT !.disposeCalls = @ + 1]]_vars

\* dispose() was called twice on a listener whose setup had finished: its
\* cleanupCallback ran once.
C31_Witness ==
    /\ messageListener.disposeCalls = 2
    /\ ~messageListener.isListening
    /\ messageListener.cleanupCallback = 1
    /\ setups[1].iife = "listening"
    /\ setups[1].cleanupRuns = 1

Disposed == messageListener.disposeCalls > 0

\* C36: once dispose() has been called on a streaming listener, isListening
\* stays false, no further setup is started and no link is leased, and the
\* user handler is not called again, whenever the call was made: while
\* listening, before the setup has finished, or during the reattach backoff.
C36_NothingAfterDispose ==
    /\ [](Disposed => ~messageListener.isListening)
    /\ [][Disposed =>
            /\ linksCount' <= linksCount
            /\ \A k \in Setups :
                  /\ setups[k].iife = "none" => setups'[k].iife = "none"
                  /\ setups'[k].handled = setups[k].handled]_vars

\* Call k of _connectReceiver was torn down: its cleanupCallback ran and is
\* not waiting for a promise any more.
TornDown(k) ==
    /\ setups[k].cleanupRuns > 0
    /\ setups[k].rcv # "creating" /\ setups[k].mgmt # "creating"
    /\ setups[k].rcvWaiters = 0 /\ setups[k].mgmtWaiters = 0

\* C37: when a setup attempt has been torn down, the lease of its receiver
\* link and the lease of its two management links have each been released
\* once, also when a creation failed; and once the listener is disposed and
\* every attempt made is torn down, no link is leased any more.
C37_LeasesReleased ==
    /\ \A k \in Setups :
          TornDown(k) => (setups[k].rcvReleases = 1 /\ setups[k].mgmtReleases = 1)
    /\ (Disposed /\ \A k \in Setups : setups[k].iife # "none" => TornDown(k))
          => linksCount = 0

====
